---- MODULE Spec2Model ----
(***************************************************************************)
(* The workflow renderer of media-mcp-editor: FFmpeg.render_workflow       *)
(* (usage scan, copy preparation, recursive evaluation, engine run), the   *)
(* copy table kept on the FFmpeg instance, and the MediaMCPHandler /       *)
(* send_response layer that turns a render into a server response.         *)
(***************************************************************************)
EXTENDS Naturals, Integers, Sequences, FiniteSets, TLC

VARIABLES
    file_copies,        \* FFmpeg._file_copies: original path -> sequence of copy paths
    copy_usage_index,   \* FFmpeg._copy_usage_index: original path -> next index to use
    disk,               \* the files that exist on the file system
    fresh,              \* source of uuid4 / temporary-file names: last number drawn
    rs,                 \* per thread: the render_workflow call in progress (a record)
    api,                \* direct calls of the copy allocator: prepared usage and returns
    call                \* a direct call of a handler, a builder method or a tool, and its outcome

vars == <<file_copies, copy_usage_index, disk, fresh, rs, api, call>>

----------------------------------------------------------------------------
(* Bounds of the model.                                                    *)

MaxWidth == 3
MaxRenders == 2
MaxDepth == 1
MaxUse == 3

----------------------------------------------------------------------------
(* References, paths and the file system.                                  *)

LocalRefs == {"A", "B"}
MissingRefs == {"M"}
RemoteRefs == {"U"}
DeadRemoteRefs == {"V"}

NoPath == [kind |-> "none", base |-> "", i |-> 0, uuid |-> 0]
SrcPath(ref) == [kind |-> "src", base |-> ref, i |-> 0, uuid |-> 0]
DownloadPath(ref, u) == [kind |-> "dl", base |-> ref, i |-> 0, uuid |-> u]
CopyPath(i, u, file_path) == [kind |-> "copy", base |-> file_path.base, i |-> i, uuid |-> u]
FinalPath(u) == [kind |-> "final", base |-> "mp4", i |-> 0, uuid |-> u]

InitialDisk == {SrcPath(ref) : ref \in LocalRefs}

----------------------------------------------------------------------------
(* Exceptions.                                                             *)

NoExc == [cls |-> "", msg |-> "", stderr |-> ""]
Exc(cls, msg) == [cls |-> cls, msg |-> msg, stderr |-> ""]

\* The classes "except Exception" does not catch.
BaseOnlyClasses == {"KeyboardInterrupt", "SystemExit"}

\* Faults of the environment a render can meet at any step: an allocation
\* failure (str(MemoryError()) is the empty string), an I/O error.
EnvFaults ==
    {Exc("MemoryError", ""), Exc("OSError", "No space left on device")}

\* What the engine writes to its standard error when a run fails.
Diags == {"d1", "d2"}

----------------------------------------------------------------------------
(* Workflow nodes.  Every node is a record of the same shape:              *)
(*   k      "url" ({"url": ref}), "str" (a bare string), "act" (a dict     *)
(*          with "action"), "bad" (anything else)                          *)
(*   form   of an action node's "input": "single", "list" or "none"        *)
(*   ins    the input nodes, in order                                      *)
(*   params the flat parameters next to "action" and "input": a set of     *)
(*          <<name, value>> pairs                                          *)

UrlLeaf(ref) == [k |-> "url", ref |-> ref, action |-> "", form |-> "none", ins |-> <<>>,
     params |-> {}]
StrLeaf(ref) == [k |-> "str", ref |-> ref, action |-> "", form |-> "none", ins |-> <<>>,
     params |-> {}]
\* The parameters a handler reads as params[key]: without one it raises
\* KeyError.  Every other parameter is read with a default.
RequiredKeys(action) ==
    CASE action = "trim" -> {"start", "duration"}
      [] action = "cut" -> {"x", "y", "width", "height"}
      [] action = "change_volume" -> {"volume"}
      [] OTHER -> {}

\* A node of one input; it carries the parameters its handler cannot do
\* without, each of value 1.
Act1(a, c) == [k |-> "act", ref |-> "", action |-> a, form |-> "single", ins |-> <<c>>,
     params |-> {<<key, [t |-> "int", n |-> 1, s |-> ""]>> : key \in RequiredKeys(a)}]
ActN(a, cs) == [k |-> "act", ref |-> "", action |-> a, form |-> "list", ins |-> cs,
     params |-> {}]
Act0(a) == [k |-> "act", ref |-> "", action |-> a, form |-> "none", ins |-> <<>>,
     params |-> {}]
BadNode == [k |-> "bad", ref |-> "", action |-> "", form |-> "none", ins |-> <<>>,
     params |-> {}]

\* Parameter values: a number, a string or None.
IntV(n) == [t |-> "int", n |-> n, s |-> ""]
StrV(str) == [t |-> "str", n |-> 0, s |-> str]
None == [t |-> "none", n |-> 0, s |-> ""]

\* not v
Falsy(v) == v = None \/ v = IntV(0) \/ v = StrV("")

WithParams(n, ps) == [n EXCEPT !.params = ps]
HasParam(n, name) == \E pr \in n.params : pr[1] = name
GetParam(n, name) == (CHOOSE pr \in n.params : pr[1] = name)[2]

IsLeaf(n) == n.k \in {"url", "str"}

ListActions == {"concat", "crossfade", "audio_mix", "overlay"}
SingleActions ==
    {"trim", "cut", "change_volume", "scale", "fade", "rotate", "speed", "blur",
     "set_fps", "set_format", "reset_video_pts", "audio_resample",
     "reset_audio_pts", "audio_dynaudnorm"}
ACTION_REGISTRY == ListActions \cup SingleActions

----------------------------------------------------------------------------
(* FFmpeg._download_source_if_needed.  A remote reference is downloaded to *)
(* a new temporary file on every call; a local one is returned as given    *)
(* when it is a file; anything else raises ValueError.                     *)

Scheme(source) == IF source \in RemoteRefs \cup DeadRemoteRefs THEN "https" ELSE ""

\* A bug: a local path is returned whether it is a file or not.
download_source_if_needed_unchecked(source, dsk, ctr) ==
    IF Scheme(source) \in {"http", "https"}
    THEN IF source \in RemoteRefs
         THEN [exc |-> NoExc, path |-> DownloadPath(source, ctr + 1),
               ctr |-> ctr + 1, made |-> {DownloadPath(source, ctr + 1)}]
         ELSE [exc |-> Exc("OSError", "download failed"), path |-> NoPath,
               ctr |-> ctr + 1, made |-> {DownloadPath(source, ctr + 1)}]
    ELSE [exc |-> NoExc, path |-> SrcPath(source), ctr |-> ctr, made |-> {}]

download_source_if_needed(source, dsk, ctr) ==
    IF Scheme(source) \in {"http", "https"}
    THEN IF source \in RemoteRefs
         THEN [exc |-> NoExc, path |-> DownloadPath(source, ctr + 1),
               ctr |-> ctr + 1, made |-> {DownloadPath(source, ctr + 1)}]
         ELSE [exc |-> Exc("OSError", "download failed"), path |-> NoPath,
               ctr |-> ctr + 1, made |-> {DownloadPath(source, ctr + 1)}]
    ELSE IF SrcPath(source) \in dsk
         THEN [exc |-> NoExc, path |-> SrcPath(source), ctr |-> ctr, made |-> {}]
         ELSE [exc |-> Exc("ValueError", "Invalid URL or file path"),
               path |-> NoPath, ctr |-> ctr, made |-> {}]

----------------------------------------------------------------------------
(* file_usage is a dict, kept in insertion order: a sequence of            *)
(* [path, n] entries with distinct paths.                                  *)

UsagePaths(u) == {u[j].path : j \in 1..Len(u)}
UsageGet(u, p) ==
    IF p \in UsagePaths(u)
    THEN CHOOSE j \in 1..Len(u) : u[j].path = p
    ELSE 0
UsageCount(u, p) == IF p \in UsagePaths(u) THEN u[UsageGet(u, p)].n ELSE 0
UsageInc(u, p) ==
    IF p \in UsagePaths(u)
    THEN [u EXCEPT ![UsageGet(u, p)].n = @ + 1]
    ELSE Append(u, [path |-> p, n |-> 1])

(* FFmpeg._scan_workflow_for_file_usage: scan_node threads the dict, the   *)
(* name counter and the files the downloads created; an exception stops    *)
(* the walk.                                                               *)

ScanStart(ctr) == [usage |-> <<>>, ctr |-> ctr, made |-> {}, exc |-> NoExc]

\* A bug: a path is recorded once, however often it occurs.
ScanLeafOnce(source, dsk, acc) ==
    LET r == download_source_if_needed(source, dsk, acc.ctr)
    IN  IF r.exc # NoExc
        THEN [acc EXCEPT !.exc = r.exc, !.ctr = r.ctr, !.made = @ \cup r.made]
        ELSE [acc EXCEPT !.usage = IF r.path \in UsagePaths(@) THEN @
                                   ELSE UsageInc(@, r.path),
                         !.ctr = r.ctr, !.made = @ \cup r.made]

ScanLeaf(source, dsk, acc) ==
    LET r == download_source_if_needed(source, dsk, acc.ctr)
    IN  IF r.exc # NoExc
        THEN [acc EXCEPT !.exc = r.exc, !.ctr = r.ctr, !.made = @ \cup r.made]
        ELSE [acc EXCEPT !.usage = UsageInc(@, r.path), !.ctr = r.ctr,
                         !.made = @ \cup r.made]

RECURSIVE scan_node(_, _, _)
RECURSIVE scan_inputs(_, _, _, _)
scan_inputs(ins, j, dsk, acc) ==
    IF j > Len(ins) \/ acc.exc # NoExc
    THEN acc
    ELSE scan_inputs(ins, j + 1, dsk, scan_node(ins[j], dsk, acc))

scan_node(n, dsk, acc) ==
    IF acc.exc # NoExc THEN acc
    ELSE IF n.k = "url" THEN ScanLeaf(n.ref, dsk, acc)
    ELSE IF n.k = "act"
         THEN IF n.form = "list" THEN scan_inputs(n.ins, 1, dsk, acc)
              ELSE IF n.form = "single" THEN scan_node(n.ins[1], dsk, acc)
              ELSE acc
    ELSE IF n.k = "str" THEN ScanLeaf(n.ref, dsk, acc)
    ELSE acc

scan_workflow_for_file_usage(node, dsk, ctr) == scan_node(node, dsk, ScanStart(ctr))

----------------------------------------------------------------------------
(* FFmpeg._create_file_copies: both tables are cleared, then every path    *)
(* used more than once gets usage_count - 1 copies and a cursor of 0.      *)

EmptyTable == [p \in {} |-> <<>>]

\* A bug: one copy too few, as if the original served two uses.
NewCopiesOneShort(file_path, usage_count, ctr) ==
    [i \in 1..(usage_count - 2) |-> CopyPath(i - 1, ctr + i, file_path)]

NewCopies(file_path, usage_count, ctr) ==
    [i \in 1..(usage_count - 1) |-> CopyPath(i - 1, ctr + i, file_path)]

\* A bug: a path that already has copies in the table keeps them, and its
\* cursor, from the render before.
RECURSIVE CreateFromCached(_, _, _)
CreateFromCached(file_usage, j, acc) ==
    IF j > Len(file_usage) THEN acc
    ELSE LET e == file_usage[j]
         IN  IF e.n > 1 /\ e.path \in DOMAIN file_copies
             THEN CreateFromCached(file_usage, j + 1,
                    [acc EXCEPT !.copies = (e.path :> file_copies[e.path]) @@ @,
                                !.index = (e.path :> copy_usage_index[e.path]) @@ @])
             ELSE IF e.n > 1
             THEN LET copies == NewCopies(e.path, e.n, acc.ctr)
                  IN  CreateFromCached(file_usage, j + 1,
                        [copies |-> (e.path :> copies) @@ acc.copies,
                         index |-> (e.path :> 0) @@ acc.index,
                         made |-> acc.made \cup {copies[i] : i \in 1..Len(copies)},
                         ctr |-> acc.ctr + Len(copies)])
             ELSE CreateFromCached(file_usage, j + 1, acc)

RECURSIVE CreateFrom(_, _, _)
CreateFrom(file_usage, j, acc) ==
    IF j > Len(file_usage) THEN acc
    ELSE LET e == file_usage[j]
         IN  IF e.n > 1
             THEN LET copies == NewCopies(e.path, e.n, acc.ctr)
                  IN  CreateFrom(file_usage, j + 1,
                        [copies |-> (e.path :> copies) @@ acc.copies,
                         index |-> (e.path :> 0) @@ acc.index,
                         made |-> acc.made \cup {copies[i] : i \in 1..Len(copies)},
                         ctr |-> acc.ctr + Len(copies)])
             ELSE CreateFrom(file_usage, j + 1, acc)

\* A bug: the tables of the previous render are not cleared.
KeptTables(ctr) ==
    [copies |-> file_copies, index |-> copy_usage_index, made |-> {}, ctr |-> ctr]

ClearedTables(ctr) ==
    [copies |-> EmptyTable, index |-> EmptyTable, made |-> {}, ctr |-> ctr]

create_file_copies(file_usage, ctr) == CreateFrom(file_usage, 1, ClearedTables(ctr))

----------------------------------------------------------------------------
(* FFmpeg._get_unique_file_path on the instance's two tables.              *)

\* A bug: the cursor is not advanced when a copy is handed out.
get_unique_file_path_stuck(original_path, copies, index) ==
    IF original_path \notin DOMAIN copies
    THEN [exc |-> NoExc, path |-> original_path, index |-> index]
    ELSE IF index[original_path] = 0
    THEN [exc |-> NoExc, path |-> original_path,
          index |-> [index EXCEPT ![original_path] = @ + 1]]
    ELSE [exc |-> NoExc, path |-> copies[original_path][index[original_path]],
          index |-> index]

get_unique_file_path(original_path, copies, index) ==
    IF original_path \notin DOMAIN copies
    THEN [exc |-> NoExc, path |-> original_path, index |-> index]
    ELSE LET usage_index == index[original_path]
         IN  IF usage_index = 0
             THEN [exc |-> NoExc, path |-> original_path,
                   index |-> [index EXCEPT ![original_path] = @ + 1]]
             ELSE LET copy_index == usage_index - 1
                  IN  IF copy_index < Len(copies[original_path])
                      THEN [exc |-> NoExc,
                            path |-> copies[original_path][copy_index + 1],
                            index |-> [index EXCEPT ![original_path] = @ + 1]]
                      ELSE [exc |-> Exc("RuntimeError", "No more copies available"),
                            path |-> NoPath, index |-> index]

----------------------------------------------------------------------------
(* Streams.  A stream value is what a handler takes and returns: a         *)
(* (video, audio) tuple ("pair"; audio tells whether the audio handle is   *)
(* not None), a tuple of one element ("tuple1"), a bare handle ("bare") or *)
(* None ("none").  srcs are the paths of the ffmpeg.input nodes it reads,  *)
(* ops the handlers applied, in order.  v and a are its handles: v the     *)
(* video handle of a tuple or the bare handle itself, a the audio handle   *)
(* of a tuple (<<>> when it is None).                                      *)
(*                                                                         *)
(* A handle is the filter graph that ends in it, written in postfix: the   *)
(* graphs of a node's incoming handles in order, then the node with the    *)
(* number n of its incoming handles.  ffmpeg.input(path) is a node of no   *)
(* incoming handle; .video and .audio put the selector "v" or "a" on a     *)
(* handle.                                                                 *)

Tok(op, n, path) == [op |-> op, n |-> n, path |-> path]

\* ffmpeg.input(path)
Input(path) == <<Tok("input", 0, path)>>

\* The handle carries a selector already.
Selected(h) == h # <<>> /\ h[Len(h)].op \in {"v", "a"}

\* h.video, h.audio of a handle without a selector
Select(h, sel) == Append(h, Tok(sel, 1, NoPath))

RECURSIVE ApplyFilters(_, _, _)
\* h.filter(names[j]).filter(names[j+1])...
ApplyFilters(h, names, j) ==
    IF j > Len(names) THEN h
    ELSE ApplyFilters(Append(h, Tok(names[j], 1, NoPath)), names, j + 1)

RECURSIVE FlatHandles(_, _)
FlatHandles(hs, j) ==
    IF j > Len(hs) THEN <<>> ELSE hs[j] \o FlatHandles(hs, j + 1)

\* ffmpeg.filter(hs, name, ...)
FilterN(hs, name) == Append(FlatHandles(hs, 1), Tok(name, Len(hs), NoPath))

Stream(shape, audio, srcs, ops) ==
    [shape |-> shape, audio |-> audio, srcs |-> srcs, ops |-> ops,
     v |-> <<>>, a |-> <<>>]
NoneStream == Stream("none", FALSE, <<>>, <<>>)

\* The stream s with the handles v and a.
Handles(s, v, a) == [s EXCEPT !.v = v, !.a = a]

Ret(s) == [exc |-> NoExc, val |-> s]
Raise(cls, msg) == [exc |-> Exc(cls, msg), val |-> NoneStream]

RECURSIVE FlatSrcs(_, _)
FlatSrcs(streams_list, j) ==
    IF j > Len(streams_list) THEN <<>>
    ELSE streams_list[j].srcs \o FlatSrcs(streams_list, j + 1)

RECURSIVE FlatOps(_, _)
FlatOps(streams_list, j) ==
    IF j > Len(streams_list) THEN <<>>
    ELSE streams_list[j].ops \o FlatOps(streams_list, j + 1)

\* isinstance(s, tuple)
IsTuple(s) == s.shape \in {"pair", "tuple1"}

AllTuples(streams_list) ==
    \A j \in 1..Len(streams_list) : IsTuple(streams_list[j])

\* v, a = streams on a tuple that has no second element
UnpackError == Raise("ValueError", "not enough values to unpack (expected 2, got 1)")

\* ffmpeg.filter(streams, ...) of the engine binding: a filter node needs at
\* least one incoming stream and every incoming stream must be a stream.
FilterInputs(handles, present) ==
    IF handles = 0
    THEN Exc("ValueError", "Expected at least 1 input stream(s); got 0")
    ELSE IF present < handles
    THEN Exc("TypeError", "Expected incoming stream(s) to be of one of the following types")
    ELSE NoExc

\* The filter a single-input handler puts on a tuple, and the channel it
\* puts it on.
FilterOf(action) ==
    CASE action = "set_format" -> [chan |-> "video", filter |-> "format"]
      [] action = "reset_video_pts" -> [chan |-> "video", filter |-> "setpts"]
      [] action = "set_fps" -> [chan |-> "video", filter |-> "fps"]
      [] action = "audio_resample" -> [chan |-> "audio", filter |-> "aresample"]
      [] action = "reset_audio_pts" -> [chan |-> "audio", filter |-> "asetpts"]
      [] action = "audio_dynaudnorm" -> [chan |-> "audio", filter |-> "dynaudnorm"]
      [] action = "cut" -> [chan |-> "video", filter |-> "crop"]
      [] action = "scale" -> [chan |-> "video", filter |-> "scale"]
      [] action = "rotate" -> [chan |-> "video", filter |-> "rotate"]
      [] action = "blur" -> [chan |-> "video", filter |-> "gblur"]
      [] action = "change_volume" -> [chan |-> "audio", filter |-> "volume"]
      [] action = "speed" -> [chan |-> "both", filter |-> "setpts"]
      [] OTHER -> [chan |-> "both", filter |-> action]

\* The filters a handler chains on the video handle and on the audio handle.
VideoFilters(action) ==
    IF FilterOf(action).chan = "audio" THEN <<>>
    ELSE IF action = "trim" THEN <<"trim", "setpts">>
    ELSE <<FilterOf(action).filter>>

AudioFilters(action) ==
    IF FilterOf(action).chan = "video" THEN <<>>
    ELSE IF action = "trim" THEN <<"atrim", "asetpts">>
    ELSE IF action = "fade" THEN <<"afade">>
    ELSE IF action = "speed" THEN <<"atempo">>
    ELSE <<FilterOf(action).filter>>

KeyError == Raise("KeyError", "params")

\* A bug: every handler builds the audio handle anew, the video-only ones
\* by a pass-through filter.
handle_single_rebuilding_audio(action, streams, params) ==
    IF streams.shape = "tuple1" THEN UnpackError
    ELSE IF streams.shape = "pair"
    THEN IF \E key \in RequiredKeys(action) : ~ HasParam(params, key) THEN KeyError
         ELSE Ret(Handles(Stream("pair", streams.audio, streams.srcs,
                                 Append(streams.ops, action)),
                          ApplyFilters(streams.v, VideoFilters(action), 1),
                          IF streams.audio
                          THEN ApplyFilters(streams.a, AudioFilters(action) \o <<"anull">>, 1)
                          ELSE <<>>))
    ELSE IF streams.shape = "bare"
    THEN IF \E key \in RequiredKeys(action) : ~ HasParam(params, key) THEN KeyError
         ELSE Ret(Handles(Stream("bare", FALSE, streams.srcs, Append(streams.ops, action)),
                          ApplyFilters(streams.v, VideoFilters(action), 1), <<>>))
    ELSE Raise("AttributeError", "NoneType object has no attribute")

\* The single-input handlers.  A tuple gives a tuple: the video handle is
\* filtered by the handlers of the video, the audio handle by the handlers
\* of the audio unless it is None, and the other handle is returned as it
\* came.  A bare handle gives a bare handle: the handlers of the audio take
\* streams.audio first, which a handle with a selector does not allow.
\* None has no attributes.
handle_single(action, streams, params) ==
    IF streams.shape = "tuple1" THEN UnpackError
    ELSE IF streams.shape = "pair"
    THEN IF \E key \in RequiredKeys(action) : ~ HasParam(params, key) THEN KeyError
         ELSE Ret(Handles(Stream("pair", streams.audio, streams.srcs,
                                 Append(streams.ops, action)),
                          ApplyFilters(streams.v, VideoFilters(action), 1),
                          IF streams.audio
                          THEN ApplyFilters(streams.a, AudioFilters(action), 1)
                          ELSE <<>>))
    ELSE IF streams.shape = "bare"
    THEN IF FilterOf(action).chan = "audio"
         THEN IF Selected(streams.v)
              THEN Raise("ValueError", "Stream already has a selector")
              ELSE IF \E key \in RequiredKeys(action) : ~ HasParam(params, key)
              THEN KeyError
              ELSE Ret(Handles(Stream("bare", FALSE, streams.srcs,
                                      Append(streams.ops, action)),
                               ApplyFilters(Select(streams.v, "a"),
                                            AudioFilters(action), 1), <<>>))
         ELSE IF \E key \in RequiredKeys(action) : ~ HasParam(params, key) THEN KeyError
         ELSE Ret(Handles(Stream("bare", FALSE, streams.srcs, Append(streams.ops, action)),
                          ApplyFilters(streams.v, VideoFilters(action), 1), <<>>))
    ELSE Raise("AttributeError", "NoneType object has no attribute")

\* handle_concat: joins when every element is a tuple; otherwise falls off
\* the end of the function and returns None.
handle_concat(streams_list, params) ==
    IF AllTuples(streams_list)
    THEN IF \E j \in 1..Len(streams_list) : streams_list[j].shape = "tuple1"
         THEN Raise("ValueError",
                    "All streams must have both video and audio for concat action")
         ELSE LET n == Len(streams_list)
                  audios == Cardinality({j \in 1..n : streams_list[j].audio})
              IN  IF FilterInputs(n, n) # NoExc
                  THEN [exc |-> FilterInputs(n, n), val |-> NoneStream]
                  ELSE IF FilterInputs(n, audios) # NoExc
                  THEN [exc |-> FilterInputs(n, audios), val |-> NoneStream]
                  ELSE Ret(Handles(Stream("pair", TRUE, FlatSrcs(streams_list, 1),
                                          Append(FlatOps(streams_list, 1), "concat")),
                                   FilterN([j \in 1..n |-> streams_list[j].v], "concat"),
                                   FilterN([j \in 1..n |-> streams_list[j].a], "concat")))
    ELSE Ret(NoneStream)

handle_overlay(streams_list, params) ==
    IF Len(streams_list) # 2
    THEN Raise("ValueError", "Overlay action requires exactly 2 video streams")
    ELSE IF AllTuples(streams_list)
    THEN IF \E j \in 1..2 : streams_list[j].shape = "tuple1" THEN UnpackError
         ELSE
         Ret(Handles(Stream("pair", streams_list[1].audio, FlatSrcs(streams_list, 1),
                            Append(FlatOps(streams_list, 1), "overlay")),
                     FilterN(<<streams_list[1].v, streams_list[2].v>>, "overlay"),
                     streams_list[1].a))
    ELSE IF streams_list[1].shape = "bare"
    THEN Ret(Handles(Stream("bare", FALSE, FlatSrcs(streams_list, 1),
                            Append(FlatOps(streams_list, 1), "overlay")),
                     FilterN(<<streams_list[1].v, streams_list[2].v>>, "overlay"), <<>>))
    ELSE Raise("AttributeError", "object has no attribute overlay")

\* offset = stream1_duration - duration, duration being 1.0 when the node
\* has none.
crossfade_offset(params) ==
    GetParam(params, "stream1_duration").n
        - (IF HasParam(params, "duration") THEN GetParam(params, "duration").n ELSE 1)

handle_crossfade(streams_list, params) ==
    IF Len(streams_list) # 2
    THEN Raise("ValueError", "Crossfade requires exactly 2 streams")
    ELSE IF ~ HasParam(params, "stream1_duration")
            \/ Falsy(GetParam(params, "stream1_duration"))
    THEN Raise("ValueError", "stream1_duration parameter is required for crossfade")
    ELSE IF AllTuples(streams_list)
    THEN IF \E j \in 1..2 : streams_list[j].shape = "tuple1" THEN UnpackError
         ELSE
         Ret(Handles(Stream("pair", streams_list[1].audio \/ streams_list[2].audio,
                            FlatSrcs(streams_list, 1),
                            Append(FlatOps(streams_list, 1), "crossfade")),
                     FilterN(<<ApplyFilters(streams_list[1].v, <<"fps">>, 1),
                               ApplyFilters(streams_list[2].v, <<"fps">>, 1)>>, "xfade"),
                     IF streams_list[1].audio /\ streams_list[2].audio
                     THEN FilterN(<<streams_list[1].a, streams_list[2].a>>, "acrossfade")
                     ELSE IF streams_list[1].audio THEN streams_list[1].a
                     ELSE streams_list[2].a))
    ELSE IF streams_list[1].shape = "bare" /\ streams_list[2].shape = "bare"
    THEN Ret(Handles(Stream("bare", FALSE, FlatSrcs(streams_list, 1),
                            Append(FlatOps(streams_list, 1), "crossfade")),
                     FilterN(<<ApplyFilters(streams_list[1].v, <<"fps">>, 1),
                               ApplyFilters(streams_list[2].v, <<"fps">>, 1)>>, "xfade"),
                     <<>>))
    ELSE Raise("AttributeError", "object has no attribute filter")

\* [s[1] for s in streams_list if s[1] is not None]
RECURSIVE PresentAudios(_, _)
PresentAudios(streams_list, j) ==
    IF j > Len(streams_list) THEN <<>>
    ELSE (IF streams_list[j].audio THEN <<streams_list[j].a>> ELSE <<>>)
         \o PresentAudios(streams_list, j + 1)

\* A bug: one audio handle is enough to mix.
handle_audio_mix_of_one(streams_list, params) ==
    IF ~ AllTuples(streams_list)
    THEN Raise("ValueError", "Audio mix requires video/audio tuple streams")
    ELSE IF \E j \in 1..Len(streams_list) : streams_list[j].shape = "tuple1"
    THEN Raise("IndexError", "tuple index out of range")
    ELSE IF Len(PresentAudios(streams_list, 1)) < 1
    THEN Raise("ValueError", "Audio mix requires at least 2 audio streams")
    ELSE Ret(Handles(Stream("pair", TRUE, FlatSrcs(streams_list, 1),
                            Append(FlatOps(streams_list, 1), "audio_mix")),
                     streams_list[1].v,
                     FilterN(PresentAudios(streams_list, 1), "amix")))

\* handle_audio_mix: the first video as it came, and the audio handles that
\* are not None mixed in the order of the list.
handle_audio_mix(streams_list, params) ==
    IF ~ AllTuples(streams_list)
    THEN Raise("ValueError", "Audio mix requires video/audio tuple streams")
    ELSE IF \E j \in 1..Len(streams_list) : streams_list[j].shape = "tuple1"
    THEN Raise("IndexError", "tuple index out of range")
    ELSE IF Len(PresentAudios(streams_list, 1)) < 2
    THEN Raise("ValueError", "Audio mix requires at least 2 audio streams")
    ELSE Ret(Handles(Stream("pair", TRUE, FlatSrcs(streams_list, 1),
                            Append(FlatOps(streams_list, 1), "audio_mix")),
                     streams_list[1].v,
                     FilterN(PresentAudios(streams_list, 1), "amix")))

\* ACTION_REGISTRY[action](streams, n)
Dispatch(action, args, params) ==
    IF action = "concat" THEN handle_concat(args, params)
    ELSE IF action = "overlay" THEN handle_overlay(args, params)
    ELSE IF action = "crossfade" THEN handle_crossfade(args, params)
    ELSE IF action = "audio_mix" THEN handle_audio_mix(args, params)
    ELSE handle_single(action, args[1], params)

\* A bug: the audio steps come first and the loudness step is lost.
NormalizeStepsAudioFirst ==
    <<"audio_resample", "reset_audio_pts", "set_format", "reset_video_pts", "set_fps">>

\* FFmpeg.normalize_input: ffmpeg.input(local_path), its (video, audio) tuple,
\* then six registry handlers in this order.
NormalizeSteps ==
    <<"set_format", "reset_video_pts", "set_fps",
      "audio_resample", "reset_audio_pts", "audio_dynaudnorm">>

\* The steps in turn; the engine binding fails step number fail (0: none).
RECURSIVE ApplySteps(_, _, _, _)
ApplySteps(steps, j, streams, fail) ==
    IF j > Len(steps) THEN Ret(streams)
    ELSE IF j = fail THEN Raise("ffmpeg.Error", "filter failed")
    ELSE LET out == handle_single(steps[j], streams, {})
         IN  IF out.exc # NoExc THEN out
             ELSE ApplySteps(steps, j + 1, out.val, fail)

\* except Exception as e: raise Exception(f"Error normalizing input ...")
normalize_input(local_path, fail) ==
    LET out == ApplySteps(NormalizeSteps, 1,
                          Handles(Stream("pair", TRUE, <<local_path>>, <<>>),
                                  Select(Input(local_path), "v"),
                                  Select(Input(local_path), "a")), fail)
    IN  IF out.exc # NoExc THEN Raise("Exception", "Error normalizing input")
        ELSE out

----------------------------------------------------------------------------
(* build_stream, the recursive evaluator inside FFmpeg.render_workflow, as *)
(* the sequence of steps its recursion performs, in order:                 *)
(*   "leaf"      resolve the reference, ask for its unique path, normalize *)
(*   "dispatch"  call the registry handler on the argc streams built last  *)
(*   "raise"     raise the exception exc                                   *)
(* A step that raises ends the evaluation, so the steps after it never run.*)

LeafStep(ref) ==
    [op |-> "leaf", ref |-> ref, action |-> "", argc |-> 0, params |-> {}, exc |-> NoExc]
DispatchStep(n, argc) ==
    [op |-> "dispatch", ref |-> "", action |-> n.action, argc |-> argc,
     params |-> n.params, exc |-> NoExc]
RaiseStep(cls, msg) ==
    [op |-> "raise", ref |-> "", action |-> "", argc |-> 0, params |-> {},
     exc |-> Exc(cls, msg)]

\* Iterating a value that is not a list, as the list branch does with whatever
\* "input" holds: a dict yields its keys, a string its characters, each then
\* evaluated as a bare-string node; anything else is not iterable.
IterateNonList(c) ==
    IF c.k = "url" THEN <<LeafStep("url")>>
    ELSE IF c.k = "act" THEN <<LeafStep("action")>>
    ELSE IF c.k = "str" THEN <<LeafStep("/")>>
    ELSE <<RaiseStep("TypeError", "object is not iterable")>>

RECURSIVE build_stream(_)
RECURSIVE build_inputs(_, _)

\* A bug: the handler is looked up only after the input has been built.
LookupAfterInput(n) ==
    IF n.form = "single"
    THEN Append(build_stream(n.ins[1]), RaiseStep("ValueError", "Unknown action"))
    ELSE <<RaiseStep("ValueError", "Unknown action")>>

\* handler = ACTION_REGISTRY.get(action); if not handler: raise, before
\* n['input'] is looked at.
UnknownAction(n) == <<RaiseStep("ValueError", "Unknown action")>>

build_inputs(inputs, j) ==
    IF j > Len(inputs) THEN <<>>
    ELSE build_stream(inputs[j]) \o build_inputs(inputs, j + 1)

build_stream(n) ==
    IF n.k = "url" THEN <<LeafStep(n.ref)>>
    ELSE IF n.k = "act"
    THEN IF n.action \in {"concat", "crossfade", "audio_mix", "overlay"}
         THEN IF n.form = "list"
              THEN Append(build_inputs(n.ins, 1), DispatchStep(n, Len(n.ins)))
              ELSE IF n.form = "none"
              THEN <<DispatchStep(n, 0)>>
              ELSE Append(IterateNonList(n.ins[1]), DispatchStep(n, 1))
         ELSE IF n.action \notin ACTION_REGISTRY
              THEN UnknownAction(n)
              ELSE IF n.form = "none"
              THEN <<RaiseStep("KeyError", "'input'")>>
              ELSE IF n.form = "list"
              THEN <<RaiseStep("ValueError", "Invalid node format")>>
              ELSE Append(build_stream(n.ins[1]), DispatchStep(n, 1))
    ELSE IF n.k = "str" THEN <<LeafStep(n.ref)>>
    ELSE <<RaiseStep("ValueError", "Invalid node format")>>

----------------------------------------------------------------------------
(* WorkflowBuilder.  input_stream is a node (a bare string included) or a  *)
(* list of nodes: [form |-> "single" or "list", ins |-> the nodes].  Every *)
(* method returns [exc, node]: the exception it raised or the node built.  *)

One(n) == [form |-> "single", ins |-> <<n>>]
Many(ns) == [form |-> "list", ins |-> ns]

ValidationError(msg) == [exc |-> Exc("ValueError", msg), node |-> BadNode]

\* **kwargs as the keys the item is updated with
KwArgs(kw) == {<<name, kw[name]>> : name \in DOMAIN kw}

\* A bug: a bare string is kept as it is.
WrapStrKept(n) == n

\* A bare string becomes {"url": string}, alone or as an element of a list;
\* anything else is kept.
WrapStr(n) == IF n.k = "str" THEN UrlLeaf(n.ref) ELSE n

build_item(action, input_stream, kwargs) ==
    [exc |-> NoExc,
     node |-> [k |-> "act", ref |-> "", action |-> action, form |-> input_stream.form,
               ins |-> [j \in 1..Len(input_stream.ins) |-> WrapStr(input_stream.ins[j])],
               params |-> KwArgs(kwargs)]]

add_trim_action(start, duration, input_stream) ==
    IF start.n < 0 \/ duration.n <= 0
    THEN ValidationError("Start time must be >= 0 and duration must be > 0")
    ELSE build_item("trim", input_stream,
                    [n \in {"start", "duration"} |->
                        IF n = "start" THEN start ELSE duration])

\* A bug: the offsets may be 0.
add_cut_action_from_zero(width, height, x, y, input_stream) ==
    IF x.n < 0 \/ y.n < 0 \/ width.n <= 0 \/ height.n <= 0
    THEN ValidationError("x ,y ,width and height must be greater than 0")
    ELSE build_item("cut", input_stream,
                    [n \in {"width", "height", "x", "y"} |->
                        IF n = "width" THEN width ELSE IF n = "height" THEN height
                        ELSE IF n = "x" THEN x ELSE y])

add_cut_action(width, height, x, y, input_stream) ==
    IF x.n <= 0 \/ y.n <= 0 \/ width.n <= 0 \/ height.n <= 0
    THEN ValidationError("x ,y ,width and height must be greater than 0")
    ELSE build_item("cut", input_stream,
                    [n \in {"width", "height", "x", "y"} |->
                        IF n = "width" THEN width ELSE IF n = "height" THEN height
                        ELSE IF n = "x" THEN x ELSE y])

add_change_volume_action(volume, input_stream) ==
    IF volume.n < 0
    THEN ValidationError("Volume must be greater than or equal to 0.0")
    ELSE build_item("change_volume", input_stream, [n \in {"volume"} |-> volume])

add_concat_action(input_stream) ==
    IF Len(input_stream.ins) < 2
    THEN ValidationError("Concat action requires at least two inputs")
    ELSE build_item("concat", input_stream, <<>>)

add_scale_action(width, height, input_stream) ==
    IF width.n <= 0
    THEN ValidationError("Width must be greater than 0")
    ELSE build_item("scale", input_stream,
                    [n \in {"width", "height"} |-> IF n = "width" THEN width ELSE height])

add_fade_action(fade_type, start_time, duration, input_stream) ==
    IF fade_type \notin {StrV("in"), StrV("out")}
    THEN ValidationError("Fade type must be 'in' or 'out'")
    ELSE IF duration.n <= 0
    THEN ValidationError("Duration must be greater than 0")
    ELSE build_item("fade", input_stream,
                    [n \in {"type", "start_time", "duration"} |->
                        IF n = "type" THEN fade_type
                        ELSE IF n = "start_time" THEN start_time ELSE duration])

add_rotate_action(angle, input_stream) ==
    build_item("rotate", input_stream, [n \in {"angle"} |-> angle])

add_speed_action(factor, input_stream) ==
    IF factor.n <= 0
    THEN ValidationError("Speed factor must be greater than 0")
    ELSE build_item("speed", input_stream, [n \in {"factor"} |-> factor])

add_blur_action(radius, input_stream) ==
    IF radius.n <= 0
    THEN ValidationError("Blur radius must be greater than 0")
    ELSE build_item("blur", input_stream, [n \in {"radius"} |-> radius])

add_crossfade_action(input_streams, duration, stream1_duration, transition) ==
    IF Len(input_streams.ins) # 2
    THEN ValidationError("Crossfade action requires exactly 2 inputs")
    ELSE IF duration.n <= 0
    THEN ValidationError("Duration must be greater than 0")
    ELSE IF stream1_duration = None \/ stream1_duration.n <= 0
    THEN ValidationError("stream1_duration must be provided and greater than 0")
    ELSE build_item("crossfade", input_streams,
                    [n \in {"duration", "stream1_duration", "transition"} |->
                        IF n = "duration" THEN duration
                        ELSE IF n = "stream1_duration" THEN stream1_duration
                        ELSE transition])

add_audio_mix_action(input_streams, weights) ==
    IF Len(input_streams.ins) < 2
    THEN ValidationError("Audio mix action requires at least 2 inputs")
    ELSE build_item("audio_mix", input_streams, [n \in {"weights"} |-> weights])

add_overlay_action(input_streams, x, y) ==
    IF Len(input_streams.ins) # 2
    THEN ValidationError("Overlay action requires exactly 2 inputs")
    ELSE build_item("overlay", input_streams,
                    [n \in {"x", "y"} |-> IF n = "x" THEN x ELSE y])

add_set_fps_action(input_stream, fps) ==
    build_item("set_fps", input_stream, [n \in {"fps"} |-> fps])

add_audio_resample_action(input_stream, sample_rate) ==
    build_item("audio_resample", input_stream, [n \in {"sample_rate"} |-> sample_rate])

\* The builder's methods by action kind, the arguments by name.
BuilderKinds ==
    {"trim", "cut", "change_volume", "concat", "scale", "fade", "rotate", "speed",
     "blur", "crossfade", "audio_mix", "overlay", "set_fps", "audio_resample"}

ArgNames(kind) ==
    CASE kind = "trim" -> {"start", "duration"}
      [] kind = "cut" -> {"width", "height", "x", "y"}
      [] kind = "change_volume" -> {"volume"}
      [] kind = "concat" -> {}
      [] kind = "scale" -> {"width", "height"}
      [] kind = "fade" -> {"type", "start_time", "duration"}
      [] kind = "rotate" -> {"angle"}
      [] kind = "speed" -> {"factor"}
      [] kind = "blur" -> {"radius"}
      [] kind = "crossfade" -> {"duration", "stream1_duration", "transition"}
      [] kind = "audio_mix" -> {"weights"}
      [] kind = "overlay" -> {"x", "y"}
      [] kind = "set_fps" -> {"fps"}
      [] kind = "audio_resample" -> {"sample_rate"}

WorkflowBuilder(kind, a, input_stream) ==
    CASE kind = "trim" -> add_trim_action(a["start"], a["duration"], input_stream)
      [] kind = "cut" ->
            add_cut_action(a["width"], a["height"], a["x"], a["y"], input_stream)
      [] kind = "change_volume" -> add_change_volume_action(a["volume"], input_stream)
      [] kind = "concat" -> add_concat_action(input_stream)
      [] kind = "scale" -> add_scale_action(a["width"], a["height"], input_stream)
      [] kind = "fade" ->
            add_fade_action(a["type"], a["start_time"], a["duration"], input_stream)
      [] kind = "rotate" -> add_rotate_action(a["angle"], input_stream)
      [] kind = "speed" -> add_speed_action(a["factor"], input_stream)
      [] kind = "blur" -> add_blur_action(a["radius"], input_stream)
      [] kind = "crossfade" ->
            add_crossfade_action(input_stream, a["duration"], a["stream1_duration"],
                                 a["transition"])
      [] kind = "audio_mix" -> add_audio_mix_action(input_stream, a["weights"])
      [] kind = "overlay" -> add_overlay_action(input_stream, a["x"], a["y"])
      [] kind = "set_fps" -> add_set_fps_action(input_stream, a["fps"])
      [] kind = "audio_resample" ->
            add_audio_resample_action(input_stream, a["sample_rate"])

----------------------------------------------------------------------------
(* MediaMCPHandler.render_workflow and send_response.                      *)

\* The workflow as the caller hands it over: a dict, the base64 text of a
\* dict, a string that is a path or URL, or a string that is none of these.
Wire(enc, node) == [enc |-> enc, node |-> node]

IsUrlOrFile(ref, dsk) ==
    Scheme(ref) \in {"http", "https"} \/ SrcPath(ref) \in dsk

\* touched: what the call did to the file system and to the text, in order:
\* os.path.isfile on the string (unless its scheme is http or https, which
\* ends the test), then the attempt to decode it.
process_input_stream(w, dsk) ==
    IF w.enc = "dict" THEN [exc |-> NoExc, node |-> w.node, touched |-> <<>>]
    ELSE IF w.node.k = "str" /\ IsUrlOrFile(w.node.ref, dsk)
    THEN [exc |-> NoExc, node |-> w.node,
          touched |-> IF Scheme(w.node.ref) \in {"http", "https"} THEN <<>>
                      ELSE <<"isfile">>]
    ELSE IF w.enc = "b64"
    THEN [exc |-> NoExc, node |-> w.node, touched |-> <<"isfile", "decode">>]
    ELSE [exc |-> Exc("ValueError",
                      "Input stream is neither a valid URL/path nor base64 encoded"),
          node |-> BadNode, touched |-> <<"isfile", "decode">>]

\* [process_input_stream(stream) for stream in input_streams]
RECURSIVE ProcessAll(_, _, _, _)
ProcessAll(ws, j, dsk, acc) ==
    IF j > Len(ws) \/ acc.exc # NoExc THEN acc
    ELSE LET d == process_input_stream(ws[j], dsk)
         IN  ProcessAll(ws, j + 1, dsk,
                        [exc |-> d.exc,
                         nodes |-> IF d.exc = NoExc THEN Append(acc.nodes, d.node)
                                   ELSE acc.nodes,
                         touched |-> acc.touched \o d.touched])

\* MediaMCPHandler.add_<kind>_action: the input (for a list kind, every input
\* in turn) goes through process_input_stream, then the builder is called.
MediaMCPHandler_add(kind, a, ws, dsk) ==
    LET d == ProcessAll(ws, 1, dsk, [exc |-> NoExc, nodes |-> <<>>, touched |-> <<>>])
    IN  IF d.exc # NoExc
        THEN [exc |-> d.exc, node |-> BadNode, touched |-> d.touched]
        ELSE LET b == WorkflowBuilder(kind, a,
                        IF kind \in ListActions THEN Many(d.nodes) ELSE One(d.nodes[1]))
             IN  [exc |-> b.exc, node |-> b.node, touched |-> d.touched]

\* encode_to_base64 of a dict
encode_to_base64(data) == Wire("b64", data)

NoActionResponse == [keys |-> {}, error |-> None, result_stream |-> Wire("dict", BadNode)]

\* send_action_response(result) on the node dict a builder returned
send_action_response(result) ==
    IF HasParam(result, "error") /\ ~ Falsy(GetParam(result, "error"))
    THEN [keys |-> {"error"}, error |-> GetParam(result, "error"),
          result_stream |-> Wire("dict", BadNode)]
    ELSE [keys |-> {"result_stream"}, error |-> None,
          result_stream |-> encode_to_base64(result)]

\* The defaults of the tools' parameters in server.py.
ToolDefaults(kind) ==
    CASE kind = "cut" -> [n \in {"x", "y"} |-> IntV(0)]
      [] kind = "scale" -> [n \in {"height"} |-> IntV(-1)]
      [] kind = "fade" ->
            [n \in {"type", "start_time", "duration"} |->
                IF n = "type" THEN StrV("in")
                ELSE IF n = "start_time" THEN IntV(0) ELSE IntV(1)]
      [] kind = "blur" -> [n \in {"radius"} |-> IntV(5)]
      [] kind = "crossfade" ->
            [n \in {"duration", "stream1_duration", "transition"} |->
                IF n = "duration" THEN IntV(1)
                ELSE IF n = "stream1_duration" THEN None ELSE StrV("fade")]
      [] kind = "audio_mix" -> [n \in {"weights"} |-> None]
      [] kind = "overlay" -> [n \in {"x", "y"} |-> IntV(0)]
      [] OTHER -> <<>>

\* The tool add_<kind>_action of server.py: the arguments left out take their
\* defaults; an exception of the handler leaves the tool.
Tool_add(kind, given, ws, dsk) ==
    LET a == [n \in ArgNames(kind) |->
                IF n \in DOMAIN given THEN given[n] ELSE ToolDefaults(kind)[n]]
        r == MediaMCPHandler_add(kind, a, ws, dsk)
    IN  [exc |-> r.exc, node |-> r.node, touched |-> r.touched,
         response |-> IF r.exc # NoExc THEN NoActionResponse
                      ELSE send_action_response(r.node)]

EmptyDict == [keys |-> {}, error |-> "", result_path |-> NoPath]
ResultPathDict(output_path) ==
    [keys |-> {"result_path"}, error |-> "", result_path |-> output_path]
ErrorDict(text) == [keys |-> {"error"}, error |-> text, result_path |-> NoPath]

\* str(e): the message the exception was built with.
Str(e) == e.msg

NoResponse == [keys |-> {}, error |-> "", result |-> EmptyDict]

\* not result: the dict is empty.  result.get("error"): the key is there and
\* its value is truthy, that is, a non-empty string.
send_response(result) ==
    LET res == IF result.keys = {} THEN EmptyDict ELSE result
    IN  IF "error" \in res.keys /\ res.error # ""
        THEN [keys |-> {"error"}, error |-> res.error, result |-> EmptyDict]
        ELSE [keys |-> {"result"}, error |-> "", result |-> res]

\* The dict FFmpeg.get_media_info returns.
InfoDict(stdout, stderr, returncode) ==
    [keys |-> {"stdout", "stderr", "returncode"}, error |-> "", result_path |-> NoPath,
     stdout |-> stdout, stderr |-> stderr, returncode |-> returncode]

\* FFmpeg.get_media_info: ffmpeg.probe succeeds or raises ffmpeg.Error,
\* which is caught and turned into a dict without the key "error".
FFmpeg_get_media_info(input_source, probe_ok) ==
    IF probe_ok THEN InfoDict("metadata", "", 0)
    ELSE InfoDict("", "ffprobe error (see stderr output for detail)", 1)

\* MediaMCPHandler._validate_source: a HEAD request on a URL, isfile on
\* anything else.
validate_source(source, dsk) ==
    IF Scheme(source) \in {"http", "https"}
    THEN IF source \in DeadRemoteRefs
         THEN Exc("ValueError", "URL is not reachable")
         ELSE NoExc
    ELSE IF SrcPath(source) \in dsk THEN NoExc
    ELSE Exc("ValueError", "Input must be a valid HTTP/HTTPS URL or a local file path")

\* MediaMCPHandler.get_media_info: [exc, result, probed].  A URL goes to
\* _url_to_local and, the cache being empty, to _download_remote_url, whose
\* first statement calls a method the class does not have.
MediaMCPHandler_get_media_info(input_source, dsk, probe_ok) ==
    IF validate_source(input_source, dsk) # NoExc
    THEN [exc |-> validate_source(input_source, dsk), result |-> EmptyDict,
          probed |-> FALSE]
    ELSE IF Scheme(input_source) \in {"http", "https"}
    THEN [exc |-> Exc("AttributeError", "object has no attribute _validate_url"),
          result |-> EmptyDict, probed |-> FALSE]
    ELSE [exc |-> NoExc, result |-> FFmpeg_get_media_info(input_source, probe_ok),
          probed |-> TRUE]

\* The tool get_media_info: [exc, response, probed]
Tool_get_media_info(input_address, dsk, probe_ok) ==
    LET r == MediaMCPHandler_get_media_info(input_address, dsk, probe_ok)
    IN  [exc |-> r.exc, probed |-> r.probed,
         response |-> IF r.exc # NoExc THEN NoResponse ELSE send_response(r.result)]

----------------------------------------------------------------------------
(* The workflows the model renders.                                        *)

Kids ==
    {UrlLeaf("A"), StrLeaf("A"), UrlLeaf("B"), UrlLeaf("M"),
     Act1("trim", UrlLeaf("A")), Act1("invalid_action", UrlLeaf("A")), BadNode}

KidLists == UNION {[1..w -> Kids] : w \in 2..MaxWidth}

Nodes ==
    Kids \cup {ActN("concat", cs) : cs \in KidLists}
         \cup {StrLeaf("M"), UrlLeaf("U"), UrlLeaf("V"),
               ActN("concat", <<UrlLeaf("U"), UrlLeaf("A"), UrlLeaf("U")>>),
               Act1("trim", ActN("concat", <<UrlLeaf("A"), UrlLeaf("A")>>)),
               Act1("invalid_action", ActN("concat", <<UrlLeaf("A"), UrlLeaf("A")>>)),
               ActN("concat", <<UrlLeaf("A"), Act1("trim", UrlLeaf("A")), UrlLeaf("A")>>),
               Act0("trim"), ActN("trim", <<UrlLeaf("A"), UrlLeaf("A")>>),
               Act0("concat"), Act0("overlay"), Act0("audio_mix"),
               Act1("concat", UrlLeaf("A")), Act1("concat", StrLeaf("A")),
               Act1("concat", BadNode),
               Act1("overlay", Act1("trim", UrlLeaf("A"))),
               WithParams(ActN("crossfade", <<UrlLeaf("A"), UrlLeaf("A")>>),
                          {<<"duration", IntV(1)>>}),
               WithParams(ActN("crossfade", <<UrlLeaf("A"), UrlLeaf("U")>>),
                          {<<"duration", IntV(1)>>, <<"stream1_duration", None>>}),
               WithParams(ActN("crossfade", <<UrlLeaf("A"), UrlLeaf("B")>>),
                          {<<"duration", IntV(1)>>, <<"stream1_duration", IntV(0)>>}),
               WithParams(ActN("crossfade", <<UrlLeaf("A"), UrlLeaf("B")>>),
                          {<<"duration", IntV(1)>>, <<"stream1_duration", IntV(1)>>})}

Workflows ==
    {Wire(IF n.k = "str" THEN "str" ELSE "dict", n) : n \in Nodes}
    \cup {Wire("b64", Act1("trim", UrlLeaf("A"))), Wire("garbage", BadNode)}

\* The workflows of the runs in which renders follow one another.
SeqNodes ==
    {UrlLeaf("A"), StrLeaf("A"), UrlLeaf("M"), UrlLeaf("V"), BadNode,
     ActN("concat", <<UrlLeaf("A"), UrlLeaf("A")>>),
     ActN("concat", <<UrlLeaf("A"), UrlLeaf("B")>>),
     ActN("concat", <<UrlLeaf("B"), UrlLeaf("A"), StrLeaf("B")>>),
     ActN("concat", <<UrlLeaf("A"), Act1("trim", UrlLeaf("A")), UrlLeaf("A")>>),
     ActN("concat", <<UrlLeaf("A"), UrlLeaf("A"), Act1("invalid_action", UrlLeaf("A"))>>),
     ActN("concat", <<UrlLeaf("A"), UrlLeaf("M")>>)}

SeqWorkflows ==
    {Wire(IF n.k = "str" THEN "str" ELSE "dict", n) : n \in SeqNodes}
    \cup {Wire("b64", Act1("trim", UrlLeaf("A"))), Wire("garbage", BadNode)}

----------------------------------------------------------------------------
(* State.                                                                  *)

Threads == {1, 2}

IdleRender ==
    [pc |-> "idle", renders |-> 0, workflow |-> Wire("dict", BadNode),
     node |-> BadNode, file_usage |-> <<>>, prog |-> <<>>, ip |-> 1,
     stack |-> <<>>, opened |-> <<>>, handed |-> <<>>, created |-> {},
     scans |-> 0, prepares |-> 0, dispatched |-> <<>>, runs |-> 0,
     leaves |-> <<>>, normfail |-> 0, comp |-> NoneStream,
     prev |-> [node |-> BadNode, comp |-> NoneStream, handed |-> <<>>,
               dispatched |-> <<>>],
     diag |-> "", exc |-> NoExc, raised |-> FALSE, output_path |-> NoPath,
     result |-> EmptyDict, response |-> NoResponse]

NoApi == [prepared |-> FALSE, usage |-> <<>>, calls |-> <<>>]

\* A direct call: the function, its arguments, the exception it raised, the
\* node or stream it returned, and the resources it touched, in order.
Called(fn, args, exc, node, val, touched) ==
    [fn |-> fn, args |-> args, exc |-> exc, node |-> node, val |-> val,
     touched |-> touched, response |-> NoActionResponse]
NoCall == Called("none", <<>>, NoExc, BadNode, NoneStream, <<>>)

Init ==
    /\ file_copies = EmptyTable
    /\ copy_usage_index = EmptyTable
    /\ disk = InitialDisk
    /\ fresh = 0
    /\ rs = [t \in Threads |-> IdleRender]
    /\ api = NoApi
    /\ call = NoCall

\* A bug: evaluation starts right after the scan.
SkipPrepare == "eval"

\* Where render_workflow goes after the scan and after the copy preparation.
AfterScan == "prepare"
AfterPrepare == "eval"

\* An exception e leaves FFmpeg.render_workflow: MediaMCPHandler.render_workflow
\* catches it when it derives from Exception and returns {"error": str(e)};
\* the server tool passes that dict to send_response.  Any other exception
\* passes through both and the tool builds no response.
Failed(r, e) ==
    IF e.cls \in BaseOnlyClasses
    THEN [r EXCEPT !.pc = "done", !.exc = e, !.raised = TRUE,
                   !.result = EmptyDict, !.response = NoResponse]
    ELSE [r EXCEPT !.pc = "done", !.exc = e, !.raised = FALSE,
                   !.result = ErrorDict(Str(e)),
                   !.response = send_response(ErrorDict(Str(e)))]

Succeeded(r, output_path) ==
    [r EXCEPT !.pc = "done", !.output_path = output_path,
              !.result = ResultPathDict(output_path),
              !.response = send_response(ResultPathDict(output_path))]

\* MediaMCPHandler.render_workflow is called: the workflow is decoded and
\* handed to FFmpeg.render_workflow.  prog is what build_stream will do on
\* this node once the evaluation starts.
Start(t, w) ==
    /\ rs[t].pc = "idle"
    /\ LET d == process_input_stream(w, disk)
           r == [IdleRender EXCEPT !.renders = rs[t].renders + 1, !.workflow = w,
                                   !.prev = rs[t].prev]
       IN  rs' = [rs EXCEPT ![t] =
                    IF d.exc # NoExc THEN Failed(r, d.exc)
                    ELSE [r EXCEPT !.pc = "scan", !.node = d.node,
                                   !.prog = build_stream(d.node), !.ip = 1]]
    /\ UNCHANGED <<file_copies, copy_usage_index, disk, fresh, api, call>>

\* file_usage = self._scan_workflow_for_file_usage(node)
Scan(t) ==
    /\ rs[t].pc = "scan"
    /\ LET acc == scan_workflow_for_file_usage(rs[t].node, disk, fresh)
           r == [rs[t] EXCEPT !.scans = @ + 1]
       IN  /\ disk' = disk \cup acc.made
           /\ fresh' = acc.ctr
           /\ rs' = [rs EXCEPT ![t] =
                       IF acc.exc # NoExc THEN Failed(r, acc.exc)
                       ELSE [r EXCEPT !.pc = AfterScan, !.file_usage = acc.usage]]
    /\ UNCHANGED <<file_copies, copy_usage_index, api, call>>

\* self._create_file_copies(file_usage); evaluation then starts at the root.
Prepare(t) ==
    /\ rs[t].pc = "prepare"
    /\ LET c == create_file_copies(rs[t].file_usage, fresh)
       IN  /\ file_copies' = c.copies
           /\ copy_usage_index' = c.index
           /\ disk' = disk \cup c.made
           /\ fresh' = c.ctr
           /\ rs' = [rs EXCEPT ![t] =
                       [@ EXCEPT !.pc = AfterPrepare, !.prepares = @ + 1,
                                 !.created = c.made]]
    /\ UNCHANGED <<api, call>>

CurStep(r) == r.prog[r.ip]
AtStep(r, op) == r.pc = "eval" /\ r.ip <= Len(r.prog) /\ CurStep(r).op = op

\* A leaf: resolve, _get_unique_file_path, normalize_input.
EvalLeaf(t, fail) ==
    /\ AtStep(rs[t], "leaf")
    /\ LET src == download_source_if_needed(CurStep(rs[t]).ref, disk, fresh)
           u == get_unique_file_path(src.path, file_copies, copy_usage_index)
           norm == normalize_input(u.path, fail)
       IN  /\ fail > 0 => src.exc = NoExc /\ u.exc = NoExc
           /\ disk' = disk \cup src.made
           /\ fresh' = src.ctr
           /\ IF src.exc # NoExc
              THEN /\ rs' = [rs EXCEPT ![t] = Failed(@, src.exc)]
                   /\ UNCHANGED copy_usage_index
              ELSE IF u.exc # NoExc
              THEN /\ rs' = [rs EXCEPT ![t] = Failed(@, u.exc)]
                   /\ UNCHANGED copy_usage_index
              ELSE /\ copy_usage_index' = u.index
                   /\ rs' = [rs EXCEPT ![t] =
                               LET r == [@ EXCEPT !.opened = Append(@, u.path),
                                                  !.handed = Append(@, [orig |-> src.path,
                                                                        unique |-> u.path]),
                                                  !.normfail = fail]
                               IN  IF norm.exc # NoExc THEN Failed(r, norm.exc)
                                   ELSE [r EXCEPT !.ip = @ + 1,
                                                  !.stack = Append(@, norm.val),
                                                  !.leaves = Append(@, norm.val)]]
    /\ UNCHANGED <<file_copies, api, call>>

\* A node the evaluator rejects.
EvalRaise(t) ==
    /\ AtStep(rs[t], "raise")
    /\ rs' = [rs EXCEPT ![t] = Failed(@, CurStep(rs[t]).exc)]
    /\ UNCHANGED <<file_copies, copy_usage_index, disk, fresh, api, call>>

\* An action node whose inputs are built: the registry handler is called.
EvalDispatch(t) ==
    /\ AtStep(rs[t], "dispatch")
    /\ LET st == CurStep(rs[t])
           n == Len(rs[t].stack)
           args == SubSeq(rs[t].stack, n - st.argc + 1, n)
           out == Dispatch(st.action, args, st)
       IN  rs' = [rs EXCEPT ![t] =
                    IF out.exc # NoExc THEN Failed(@, out.exc)
                    ELSE [@ EXCEPT !.ip = @ + 1,
                                   !.stack = Append(SubSeq(@, 1, n - st.argc), out.val),
                                   !.dispatched = Append(@, st.action)]]
    /\ UNCHANGED <<file_copies, copy_usage_index, disk, fresh, api, call>>

\* The root is built: a new output path is drawn and ffmpeg.output is called
\* on the stream, which rejects None.
Output(t) ==
    /\ rs[t].pc = "eval"
    /\ rs[t].ip > Len(rs[t].prog)
    /\ fresh' = fresh + 1
    /\ LET streams == rs[t].stack[Len(rs[t].stack)]
       IN  rs' = [rs EXCEPT ![t] =
                    IF streams.shape = "none"
                    THEN Failed(@, Exc("TypeError", "Expected incoming stream(s)"))
                    ELSE [@ EXCEPT !.pc = "run", !.comp = streams,
                                   !.output_path = FinalPath(fresh + 1)]]
    /\ UNCHANGED <<file_copies, copy_usage_index, disk, api, call>>

\* What the caller of FFmpeg.render_workflow gets when the engine fails:
\* ffmpeg.run is called without capture_stderr, so the engine's text goes to
\* the process's standard error and the ffmpeg.Error raised carries none of it;
\* its message is fixed.
EngineError(d) ==
    [cls |-> "ffmpeg.Error", msg |-> "ffmpeg error (see stderr output for detail)",
     stderr |-> ""]

\* ffmpeg.run succeeds and the output file exists.
RunOk(t) ==
    /\ rs[t].pc = "run"
    /\ disk' = disk \cup {rs[t].output_path}
    /\ rs' = [rs EXCEPT ![t] = Succeeded([@ EXCEPT !.runs = @ + 1], rs[t].output_path)]
    /\ UNCHANGED <<file_copies, copy_usage_index, fresh, api, call>>

\* ffmpeg.run fails, the engine having written d to its standard error.
RunFail(t, d) ==
    /\ rs[t].pc = "run"
    /\ rs' = [rs EXCEPT ![t] =
                Failed([@ EXCEPT !.runs = @ + 1, !.diag = d, !.output_path = NoPath],
                       EngineError(d))]
    /\ UNCHANGED <<file_copies, copy_usage_index, disk, fresh, api, call>>

\* The environment fails the step the render is at.
Fault(t, e) ==
    /\ rs[t].pc \in {"scan", "prepare", "eval", "run"}
    /\ rs' = [rs EXCEPT ![t] = Failed([@ EXCEPT !.output_path = NoPath], e)]
    /\ UNCHANGED <<file_copies, copy_usage_index, disk, fresh, api, call>>

\* The call has returned; the caller may make the next one.  prev keeps what
\* the last render that reached the engine handed to it.
Return(t) ==
    /\ rs[t].pc = "done"
    /\ rs' = [rs EXCEPT ![t] =
                [IdleRender EXCEPT
                    !.renders = rs[t].renders,
                    !.prev = IF rs[t].comp # NoneStream
                             THEN [node |-> rs[t].node, comp |-> rs[t].comp,
                                   handed |-> rs[t].handed,
                                   dispatched |-> rs[t].dispatched]
                             ELSE rs[t].prev]]
    /\ UNCHANGED <<file_copies, copy_usage_index, disk, fresh, api, call>>

\* The same, and the caller makes the next call on a new FFmpeg instance,
\* whose tables are empty.
ReturnToNewInstance(t) ==
    /\ rs[t].pc = "done"
    /\ file_copies' = EmptyTable
    /\ copy_usage_index' = EmptyTable
    /\ rs' = [rs EXCEPT ![t] =
                [IdleRender EXCEPT
                    !.renders = rs[t].renders,
                    !.prev = IF rs[t].comp # NoneStream
                             THEN [node |-> rs[t].node, comp |-> rs[t].comp,
                                   handed |-> rs[t].handed,
                                   dispatched |-> rs[t].dispatched]
                             ELSE rs[t].prev]]
    /\ UNCHANGED <<disk, fresh, api, call>>

Steps(t) ==
    \/ Scan(t)
    \/ Prepare(t)
    \/ \E fail \in 0..Len(NormalizeSteps) : EvalLeaf(t, fail)
    \/ EvalRaise(t)
    \/ EvalDispatch(t)
    \/ Output(t)
    \/ RunOk(t)
    \/ \E d \in Diags : RunFail(t, d)
    \/ \E e \in EnvFaults : Fault(t, e)

\* One render on a new FFmpeg instance.
StartOnce(t) == rs[t].renders = 0 /\ \E w \in Workflows : Start(t, w)

Next == StartOnce(1) \/ Steps(1)

Spec == Init /\ [][Next]_vars

\* One client: renders follow one another on the server's FFmpeg instance.
StartSeq(t) == rs[t].renders < MaxRenders /\ \E w \in SeqWorkflows : Start(t, w)

NextSeq == StartSeq(1) \/ Steps(1) \/ Return(1) \/ ReturnToNewInstance(1)

SpecSeq == Init /\ [][NextSeq]_vars

\* Two clients: two renders interleave on the server's one FFmpeg instance,
\* step by step (scan, copy preparation, each leaf, each dispatch, the run).
ConcNodes ==
    {UrlLeaf("A"),
     ActN("concat", <<UrlLeaf("A"), UrlLeaf("A")>>),
     ActN("concat", <<UrlLeaf("A"), UrlLeaf("A"), UrlLeaf("A")>>),
     ActN("concat", <<UrlLeaf("A"), UrlLeaf("B")>>),
     ActN("concat", <<UrlLeaf("B"), Act1("invalid_action", UrlLeaf("A"))>>)}

StartConc(t) == rs[t].renders = 0 /\ \E n \in ConcNodes : Start(t, Wire("dict", n))

NextConc == \E t \in Threads : StartConc(t) \/ Steps(t)

SpecConc == Init /\ [][NextConc]_vars

----------------------------------------------------------------------------
(* The copy allocator called directly: _create_file_copies on a usage map, *)
(* then _get_unique_file_path on its paths, any number of times.           *)

ApiPaths == {SrcPath(ref) : ref \in LocalRefs}

ApiUsages ==
    {<<>>}
    \cup {<<[path |-> p, n |-> n]>> : p \in ApiPaths, n \in 1..MaxUse}
    \cup {<<[path |-> pq[1], n |-> n], [path |-> pq[2], n |-> m]>> :
            pq \in {x \in ApiPaths \X ApiPaths : x[1] # x[2]},
            n \in 1..MaxUse, m \in 1..MaxUse}

CallsFor(p) ==
    LET ForP(c) == c.path = p
    IN  SelectSeq(api.calls, ForP)

ApiPrepare(u) ==
    /\ ~ api.prepared
    /\ LET c == create_file_copies(u, fresh)
       IN  /\ file_copies' = c.copies
           /\ copy_usage_index' = c.index
           /\ disk' = disk \cup c.made
           /\ fresh' = c.ctr
    /\ api' = [prepared |-> TRUE, usage |-> u, calls |-> <<>>]
    /\ UNCHANGED <<rs, call>>

ApiNext(p) ==
    /\ api.prepared
    /\ p \in UsagePaths(api.usage)
    /\ Len(CallsFor(p)) <= UsageCount(api.usage, p)
    /\ LET r == get_unique_file_path(p, file_copies, copy_usage_index)
       IN  /\ copy_usage_index' = r.index
           /\ api' = [api EXCEPT !.calls =
                        Append(@, [path |-> p, ret |-> r.path,
                                   raised |-> r.exc # NoExc])]
    /\ UNCHANGED <<file_copies, disk, fresh, rs, call>>

NextAlloc ==
    \/ \E u \in ApiUsages : ApiPrepare(u)
    \/ \E p \in ApiPaths : ApiNext(p)

SpecAlloc == Init /\ [][NextAlloc]_vars

----------------------------------------------------------------------------
(* The handlers, the builder methods and the tools called directly.        *)

\* The stream values a handler can be handed, inp being ffmpeg.input(path):
\* the tuples (inp.video, inp.audio), (inp.video, None) and (inp.video,),
\* and the bare handles inp and inp.video.
StreamVals ==
    {Handles(Stream("pair", TRUE, <<SrcPath(ref)>>, <<>>),
             Select(Input(SrcPath(ref)), "v"), Select(Input(SrcPath(ref)), "a"))
        : ref \in LocalRefs}
    \cup {Handles(Stream("pair", FALSE, <<SrcPath("A")>>, <<>>),
                  Select(Input(SrcPath("A")), "v"), <<>>),
          Handles(Stream("tuple1", FALSE, <<SrcPath("A")>>, <<>>),
                  Select(Input(SrcPath("A")), "v"), <<>>),
          Handles(Stream("bare", FALSE, <<SrcPath("A")>>, <<>>),
                  Input(SrcPath("A")), <<>>),
          Handles(Stream("bare", FALSE, <<SrcPath("A")>>, <<>>),
                  Select(Input(SrcPath("A")), "v"), <<>>)}

StreamLists == UNION {[1..w -> StreamVals] : w \in 2..MaxWidth}

\* handle_concat(streams_list, {})
CallConcat(streams_list) ==
    /\ call = NoCall
    /\ LET out == handle_concat(streams_list, {})
       IN  call' = Called("handle_concat", streams_list, out.exc, BadNode, out.val, <<>>)
    /\ UNCHANGED <<file_copies, copy_usage_index, disk, fresh, rs, api>>

\* The params a registry handler is called with: the parameters of the
\* action, each of value 1, or none.
FullParams(action) ==
    WithParams(Act0(action),
               {<<key, IntV(1)>> : key \in
                   IF action = "crossfade" THEN {"duration", "stream1_duration"}
                   ELSE RequiredKeys(action)})

RegistryParams(action) == {FullParams(action), Act0(action)}

\* What a registry handler is called on: one stream value, or a list.
RegistryInputs(action) ==
    IF action \in ListActions
    THEN UNION {[1..w -> StreamVals] : w \in 0..MaxWidth}
    ELSE {<<s>> : s \in StreamVals}

\* ACTION_REGISTRY[action](streams, params)
CallRegistry(action, streams, params) ==
    /\ call = NoCall
    /\ LET out == Dispatch(action, streams, params)
       IN  call' = Called("registry",
                          [action |-> action, streams |-> streams, params |-> params],
                          out.exc, BadNode, out.val, <<>>)
    /\ UNCHANGED <<file_copies, copy_usage_index, disk, fresh, rs, api>>

\* The argument values the calls are made with.
Nums == {IntV(n) : n \in -1..1}

ArgVals(name) ==
    IF name = "type" THEN {StrV("in"), StrV("out"), StrV("up")}
    ELSE IF name = "transition" THEN {StrV("fade")}
    ELSE IF name = "weights" THEN {None}
    ELSE IF name = "stream1_duration" THEN Nums \cup {None}
    ELSE IF name = "duration" THEN Nums \cup {IntV(2)}
    ELSE Nums

AllArgVals ==
    UNION {ArgVals(n) : n \in {"type", "transition", "stream1_duration", "duration"}}

\* Arguments by name for the names in D.
ArgsOn(D) == {a \in [D -> AllArgVals] : \A n \in D : a[n] \in ArgVals(n)}

\* What a caller of the tool may pass: every parameter without a default,
\* and any of the others.
Givens(kind) ==
    UNION {ArgsOn(D) : D \in {E \in SUBSET ArgNames(kind) :
                                ArgNames(kind) \ DOMAIN ToolDefaults(kind) \subseteq E}}

SingleInputs ==
    {One(StrLeaf("A")), One(UrlLeaf("B")), One(Act1("trim", UrlLeaf("A")))}
ListInputs ==
    {Many(ns) : ns \in UNION {[1..w -> {StrLeaf("A"), UrlLeaf("B")}] : w \in 0..MaxWidth}}
BuilderInputs(kind) == IF kind \in ListActions THEN ListInputs ELSE SingleInputs

\* input_stream as a tool gets it: a path, a URL, a path of no file, the
\* result_stream of an earlier action, a text that is none of these.
WireVals ==
    {Wire("str", StrLeaf("A")), Wire("str", StrLeaf("U")), Wire("str", StrLeaf("M")),
     Wire("b64", Act1("trim", UrlLeaf("A"))), Wire("garbage", BadNode)}
WireLists ==
    UNION {[1..w -> {Wire("str", StrLeaf("A")), Wire("b64", Act1("trim", UrlLeaf("A"))),
                     Wire("garbage", BadNode)}] : w \in 0..MaxWidth}
WireInputs(kind) ==
    IF kind \in ListActions THEN WireLists ELSE {<<w>> : w \in WireVals}

\* WorkflowBuilder().add_<kind>_action(...)
CallBuilder(kind, a, input_stream) ==
    /\ call = NoCall
    /\ LET b == WorkflowBuilder(kind, a, input_stream)
       IN  call' = Called("builder", [kind |-> kind, a |-> a, input |-> input_stream],
                          b.exc, b.node, NoneStream, <<>>)
    /\ UNCHANGED <<file_copies, copy_usage_index, disk, fresh, rs, api>>

\* The number of action nodes on the longest branch of a tree.
RECURSIVE Depth(_)
RECURSIVE DepthOf(_, _)
DepthOf(ins, j) ==
    IF j > Len(ins) THEN 0
    ELSE LET d == Depth(ins[j])
             rest == DepthOf(ins, j + 1)
         IN  IF d > rest THEN d ELSE rest
Depth(n) == IF n.k = "act" THEN 1 + DepthOf(n.ins, 1) ELSE 0

\* The arguments of the calls that build on a node built before: in the
\* domain of every kind.
ChainArgs(kind) ==
    [n \in ArgNames(kind) |->
        IF n = "type" THEN StrV("in")
        ELSE IF n = "transition" THEN StrV("fade")
        ELSE IF n = "weights" THEN None
        ELSE IntV(1)]

\* The node built before as the input, alone or next to a reference string.
ChainInputs(kind, node) ==
    IF kind \in ListActions
    THEN {Many(<<node, StrLeaf("B")>>), Many(<<StrLeaf("A"), node>>)}
    ELSE {One(node)}

\* WorkflowBuilder().add_<kind>_action(...) on the node the last call built
ChainBuilder(kind, input_stream) ==
    /\ call.fn = "builder"
    /\ call.exc = NoExc
    /\ call.args.a = ChainArgs(call.args.kind)
    /\ Depth(call.node) <= MaxDepth
    /\ input_stream \in ChainInputs(kind, call.node)
    /\ LET b == WorkflowBuilder(kind, ChainArgs(kind), input_stream)
       IN  call' = Called("builder",
                          [kind |-> kind, a |-> ChainArgs(kind), input |-> input_stream],
                          b.exc, b.node, NoneStream, <<>>)
    /\ UNCHANGED <<file_copies, copy_usage_index, disk, fresh, rs, api>>

\* The tool get_media_info(input_address); probe_ok: ffmpeg.probe succeeds
\* on the file.
CallGetMediaInfo(input_address, probe_ok) ==
    /\ call = NoCall
    /\ LET r == Tool_get_media_info(input_address, disk, probe_ok)
       IN  call' = [Called("get_media_info",
                           [input |-> input_address, probe_ok |-> probe_ok,
                            probed |-> r.probed],
                           r.exc, BadNode, NoneStream, <<>>)
                    EXCEPT !.response = r.response]
    /\ UNCHANGED <<file_copies, copy_usage_index, disk, fresh, rs, api>>

\* MediaMCPHandler().add_<kind>_action(...)
CallHandler(kind, a, ws) ==
    /\ call = NoCall
    /\ LET r == MediaMCPHandler_add(kind, a, ws, disk)
       IN  call' = Called("handler", [kind |-> kind, a |-> a, input |-> ws],
                          r.exc, r.node, NoneStream, r.touched)
    /\ UNCHANGED <<file_copies, copy_usage_index, disk, fresh, rs, api>>

\* The tool add_<kind>_action(...)
CallTool(kind, given, ws) ==
    /\ call = NoCall
    /\ LET r == Tool_add(kind, given, ws, disk)
       IN  call' = [Called("tool", [kind |-> kind, a |-> given, input |-> ws],
                           r.exc, r.node, NoneStream, r.touched)
                    EXCEPT !.response = r.response]
    /\ UNCHANGED <<file_copies, copy_usage_index, disk, fresh, rs, api>>

NextCall ==
    \/ \E streams_list \in StreamLists : CallConcat(streams_list)
    \/ \E action \in ACTION_REGISTRY : \E streams \in RegistryInputs(action) :
          \E params \in RegistryParams(action) : CallRegistry(action, streams, params)
    \/ \E kind \in BuilderKinds : \E a \in ArgsOn(ArgNames(kind)) :
          \E input_stream \in BuilderInputs(kind) : CallBuilder(kind, a, input_stream)
    \/ \E kind \in BuilderKinds : \E input_stream \in ChainInputs(kind, call.node) :
          ChainBuilder(kind, input_stream)
    \/ \E kind \in BuilderKinds : \E a \in ArgsOn(ArgNames(kind)) :
          \E ws \in WireInputs(kind) : CallHandler(kind, a, ws)
    \/ \E kind \in BuilderKinds : \E given \in Givens(kind) :
          \E ws \in WireInputs(kind) : CallTool(kind, given, ws)
    \/ \E input_address \in LocalRefs \cup MissingRefs \cup RemoteRefs \cup DeadRemoteRefs :
          \E probe_ok \in BOOLEAN : CallGetMediaInfo(input_address, probe_ok)

SpecCall == Init /\ [][NextCall]_vars

----------------------------------------------------------------------------
(* C12: concat dispatched on a list of stream pairs in which at least one  *)
(* element has no audio channel while another has one fails with           *)
(* ValueError and produces no stream, whether the missing channel is an    *)
(* audio handle of None or a tuple without its second component.           *)

HasAudio(s) == s.shape = "pair" /\ s.audio
LacksAudio(s) == IsTuple(s) /\ ~ HasAudio(s)

MixedAudio(streams_list) ==
    /\ \E j \in 1..Len(streams_list) : LacksAudio(streams_list[j])
    /\ \E j \in 1..Len(streams_list) : HasAudio(streams_list[j])

C12_ConcatShapeMismatch ==
    (call.fn = "handle_concat" /\ MixedAudio(call.args)) =>
        /\ call.exc.cls = "ValueError"
        /\ call.val = NoneStream

\* The part of it the code has: a tuple without its second component.
C12_ConcatShortTuple ==
    (call.fn = "handle_concat"
     /\ \E j \in 1..Len(call.args) : call.args[j].shape = "tuple1") =>
        /\ call.exc.cls = "ValueError"
        /\ call.val = NoneStream

----------------------------------------------------------------------------
(* C1: after _create_file_copies on a usage map, for every path p with     *)
(* usage[p] = n >= 1 the first n calls of _get_unique_file_path(p) return  *)
(* n pairwise distinct paths, the first of them p, and call n + 1 raises   *)
(* RuntimeError instead of returning a path.                               *)

AllocContract(p, n) ==
    LET cs == CallsFor(p)
    IN  /\ \A k \in 1..Len(cs) : k <= n => ~ cs[k].raised
        /\ \A k \in 1..Len(cs) : \A l \in 1..Len(cs) :
              (k <= n /\ l <= n /\ k # l) => cs[k].ret # cs[l].ret
        /\ Len(cs) >= 1 => cs[1].ret = p
        /\ Len(cs) >= n + 1 => cs[n + 1].raised

C1_NextContract ==
    api.prepared =>
        \A p \in UsagePaths(api.usage) :
            AllocContract(p, UsageCount(api.usage, p))

\* The same contract for the paths used more than once.
C1_NextContractMultiUse ==
    api.prepared =>
        \A p \in UsagePaths(api.usage) :
            UsageCount(api.usage, p) >= 2 => AllocContract(p, UsageCount(api.usage, p))

----------------------------------------------------------------------------
(* The leaf occurrences of a tree, read off its structure.                 *)

\* The references of the leaves, left to right, depth first.
RECURSIVE LeafRefs(_)
RECURSIVE LeafRefsOf(_, _)
LeafRefsOf(ins, j) ==
    IF j > Len(ins) THEN <<>> ELSE LeafRefs(ins[j]) \o LeafRefsOf(ins, j + 1)

LeafRefs(n) ==
    IF IsLeaf(n) THEN <<n.ref>>
    ELSE IF n.k = "act" THEN LeafRefsOf(n.ins, 1)
    ELSE <<>>

\* The tree with the inputs of every list reversed.
RECURSIVE Mirror(_)
Mirror(n) ==
    IF n.k = "act"
    THEN [n EXCEPT !.ins = [j \in 1..Len(n.ins) |-> Mirror(n.ins[Len(n.ins) + 1 - j])]]
    ELSE n

\* The paths the occurrences resolve to, one per occurrence, in order.
RECURSIVE ResolveAll(_, _, _, _)
ResolveAll(refs, j, dsk, ctr) ==
    IF j > Len(refs) THEN <<>>
    ELSE LET r == download_source_if_needed(refs[j], dsk, ctr)
         IN  <<r.path>> \o ResolveAll(refs, j + 1, dsk, r.ctr)

Occurrences(paths, p) == Cardinality({j \in 1..Len(paths) : paths[j] = p})
SeqRange(q) == {q[j] : j \in 1..Len(q)}
Distinct(q) == \A j \in 1..Len(q) : \A l \in 1..Len(q) : j # l => q[j] # q[l]

AllLeavesLocal(n) == \A j \in 1..Len(LeafRefs(n)) : LeafRefs(n)[j] \in LocalRefs

\* The dict as a mapping, its insertion order forgotten.
AsCounts(u) == [p \in UsagePaths(u) |-> UsageCount(u, p)]

----------------------------------------------------------------------------
(* C2: in one render of a tree whose leaves are existing local paths, the  *)
(* k-th occurrence of a path p in left-to-right depth-first order is       *)
(* opened from p when k = 1 and from the (k-1)-th copy of p when k > 1;    *)
(* exactly usage[p] - 1 copies of p are created; normalize_input runs once *)
(* per occurrence on that occurrence's path, so no two leaf occurrences of *)
(* the graph read the same path.                                           *)

CopiesOf(r, p) == {c \in r.created : c.kind = "copy" /\ c.base = p.base}

OccurrenceAliased(r, j) ==
    LET p == r.handed[j].orig
        k == Cardinality({l \in 1..j : r.handed[l].orig = p})
    IN  /\ p = SrcPath(LeafRefs(r.node)[j])
        /\ r.opened[j] = r.handed[j].unique
        /\ j <= Len(r.leaves) => r.leaves[j].srcs = <<r.opened[j]>>
        /\ (r.stack # <<>> /\ r.normfail = 0) =>
              r.opened[j] \in SeqRange(FlatSrcs(r.stack, 1))
        /\ IF k = 1 THEN r.opened[j] = p
           ELSE /\ r.opened[j] = file_copies[p][k - 1]
                /\ r.opened[j] \in CopiesOf(r, p)
                /\ r.opened[j] \in disk

C2_Render(r) ==
    (r.prepares = 1 /\ AllLeavesLocal(r.node)) =>
        /\ Len(r.handed) <= Len(LeafRefs(r.node))
        /\ Len(r.opened) = Len(r.handed)
        /\ \A j \in 1..Len(r.handed) : OccurrenceAliased(r, j)
        /\ Distinct(r.opened)
        /\ \A p \in UsagePaths(r.file_usage) :
              Cardinality(CopiesOf(r, p)) = UsageCount(r.file_usage, p) - 1
        /\ Cardinality(r.created) = Len(LeafRefs(r.node)) - Len(r.file_usage)
        /\ r.pc = "run" =>
              /\ Len(r.opened) = Len(LeafRefs(r.node))
              /\ r.stack[Len(r.stack)].srcs = r.opened
              /\ Len(r.stack[Len(r.stack)].ops) >= 6 * Len(r.opened)

C2_OneCopyPerExtraUse == C2_Render(rs[1])

\* concat(A, trim(A), A) is about to run: A, then its two copies.
C2_TripleUse ==
    /\ rs[1].pc = "run"
    /\ rs[1].node = ActN("concat", <<UrlLeaf("A"), Act1("trim", UrlLeaf("A")), UrlLeaf("A")>>)
    /\ Len(rs[1].opened) = 3
    /\ rs[1].opened[1] = SrcPath("A")
    /\ rs[1].opened[2].kind = "copy" /\ rs[1].opened[3].kind = "copy"
    /\ Cardinality(rs[1].created) = 2

----------------------------------------------------------------------------
(* C3: the map the usage scan returns gives every path the number of leaf  *)
(* occurrences (url-dict and bare-string leaves, at any depth, under       *)
(* single or list inputs) that resolve to it, has no other entry, and is   *)
(* the same whatever order the inputs of a list are visited in.            *)

C3_Scanned(r, dsk0, ctr0) ==
    LET paths == ResolveAll(LeafRefs(r.node), 1, dsk0, ctr0)
        mirrored == scan_workflow_for_file_usage(Mirror(r.node), dsk0, ctr0)
    IN  /\ UsagePaths(r.file_usage) = SeqRange(paths)
        /\ \A p \in SeqRange(paths) :
              UsageCount(r.file_usage, p) = Occurrences(paths, p)
        /\ Distinct([j \in 1..Len(r.file_usage) |-> r.file_usage[j].path])
        /\ mirrored.exc = NoExc
        /\ AsCounts(mirrored.usage) = AsCounts(r.file_usage)
        /\ Len(mirrored.usage) = Len(r.file_usage)

\* The scan has just returned: nothing else has touched the disk or drawn a name.
C3_UsageCountsOccurrences ==
    rs[1].pc = "prepare" => C3_Scanned(rs[1], InitialDisk, 0)

\* A scan that met bare-string and url-dict leaves of one path at two depths.
C3_MixedLeaves ==
    /\ rs[1].pc = "prepare"
    /\ rs[1].node = ActN("concat", <<StrLeaf("A"), Act1("trim", UrlLeaf("A")), UrlLeaf("B")>>)
    /\ AsCounts(rs[1].file_usage) = (SrcPath("A") :> 2) @@ (SrcPath("B") :> 1)

----------------------------------------------------------------------------
(* C7: in every render the usage scan runs once and completes, then copy   *)
(* preparation runs once and completes, and only then is the first node    *)
(* evaluated; no scan and no copy creation happens after the first alias   *)
(* request or the first handler dispatch.                                  *)

Evaluating(r) == r.handed # <<>> \/ r.dispatched # <<>> \/ r.stack # <<>>

C7_Render(r) ==
    /\ r.pc = "scan" => r.scans = 0 /\ r.prepares = 0 /\ ~ Evaluating(r)
    /\ r.pc = "prepare" => r.scans = 1 /\ r.prepares = 0 /\ ~ Evaluating(r)
    /\ r.pc \in {"eval", "run"} => r.scans = 1 /\ r.prepares = 1
    /\ Evaluating(r) => r.scans = 1 /\ r.prepares = 1
    /\ r.prepares = 0 => r.created = {}
    /\ r.scans <= 1 /\ r.prepares <= r.scans

C7_ScanThenPrepareThenEvaluate == C7_Render(rs[1])

\* A second render is past its first alias request, scanned and prepared once.
C7_SecondRenderEvaluating ==
    /\ rs[1].renders = 2
    /\ rs[1].pc = "eval"
    /\ Len(rs[1].handed) = 2
    /\ rs[1].scans = 1 /\ rs[1].prepares = 1
    /\ rs[1].created # {}

----------------------------------------------------------------------------
(* C10: rendering a tree whose leaves all resolve and whose other nodes    *)
(* are well-formed, but which holds an action node whose kind is not in    *)
(* the registry, fails with ValueError 'Unknown action'; the unknown       *)
(* node's input is not evaluated and the engine is never invoked.          *)

Resolvable(ref) == ref \in LocalRefs \cup RemoteRefs

RECURSIVE WellFormed(_)
WellFormed(n) ==
    IF IsLeaf(n) THEN Resolvable(n.ref)
    ELSE IF n.k # "act" THEN FALSE
    ELSE IF n.action \in ListActions
    THEN n.form = "list" /\ Len(n.ins) >= 2
         /\ \A j \in 1..Len(n.ins) : WellFormed(n.ins[j])
    ELSE n.form = "single" /\ WellFormed(n.ins[1])

\* The leaf occurrences met, depth first, before the first unknown action node.
RECURSIVE BeforeUnknown(_, _)
RECURSIVE BeforeUnknownOf(_, _, _)
BeforeUnknownOf(ins, j, acc) ==
    IF j > Len(ins) \/ acc.found THEN acc
    ELSE BeforeUnknownOf(ins, j + 1, BeforeUnknown(ins[j], acc))

BeforeUnknown(n, acc) ==
    IF acc.found THEN acc
    ELSE IF IsLeaf(n) THEN [acc EXCEPT !.cnt = @ + 1]
    ELSE IF n.k = "act" /\ n.action \notin ListActions \cup SingleActions
    THEN [acc EXCEPT !.found = TRUE]
    ELSE IF n.k = "act" THEN BeforeUnknownOf(n.ins, 1, acc)
    ELSE acc

UnknownIn(n) == BeforeUnknown(n, [cnt |-> 0, found |-> FALSE])

C10_Render(r) ==
    (r.pc # "idle" /\ r.scans = 1 /\ WellFormed(r.node) /\ UnknownIn(r.node).found) =>
        /\ r.pc # "run"
        /\ r.runs = 0
        /\ r.output_path = NoPath
        /\ "result_path" \notin r.result.keys
        /\ Len(r.handed) <= UnknownIn(r.node).cnt
        /\ (r.pc = "done" /\ r.exc \notin EnvFaults /\ r.normfail = 0) =>
              /\ r.exc = Exc("ValueError", "Unknown action")
              /\ Len(r.handed) = UnknownIn(r.node).cnt
              /\ r.response.keys = {"error"}

C10_UnknownActionFails == C10_Render(rs[1])

\* concat(A, invalid_action(A), B) failed after A alone was opened.
C10_UnknownAfterOneLeaf ==
    /\ rs[1].pc = "done"
    /\ rs[1].node = ActN("concat", <<UrlLeaf("A"), Act1("invalid_action", UrlLeaf("A")),
                                     UrlLeaf("B")>>)
    /\ rs[1].exc = Exc("ValueError", "Unknown action")
    /\ rs[1].opened = <<SrcPath("A")>>
    /\ rs[1].runs = 0

----------------------------------------------------------------------------
(* C11: rendering fails with ValueError 'Invalid node format' for every    *)
(* node that is none of: a leaf, an action node of a single-input kind     *)
(* with one node as input, an action node of a list-input kind with a list *)
(* of nodes as input.  That is: a value that is neither a dict nor a       *)
(* string, a dict with neither 'url' nor 'action', an action node with no  *)
(* 'input', a single-input kind given a list, a list-input kind given one  *)
(* node.                                                                   *)

IllShaped(n) ==
    \/ n.k = "bad"
    \/ /\ n.k = "act"
       /\ n.action \in ACTION_REGISTRY
       /\ n.form # (IF n.action \in ListActions THEN "list" ELSE "single")

AllLeavesResolve(n) ==
    \A j \in 1..Len(LeafRefs(n)) : Resolvable(LeafRefs(n)[j])

C11_Render(r) ==
    (r.pc # "idle" /\ r.scans = 1 /\ IllShaped(r.node) /\ AllLeavesResolve(r.node)) =>
        /\ r.pc # "run"
        /\ (r.pc = "done" /\ r.exc \notin EnvFaults /\ r.normfail = 0) =>
              r.exc = Exc("ValueError", "Invalid node format")

C11_IllShapedNodeInvalid == C11_Render(rs[1])

----------------------------------------------------------------------------
(* C13: a crossfade whose stream1_duration is omitted fails with           *)
(* ValueError before any resource is touched: at the moment of failure no  *)
(* reference has been resolved or downloaded, no file has been tested,     *)
(* copied or opened, and no input subtree has been evaluated.  Stated here *)
(* for a crossfade node handed to render_workflow.                         *)

OmitsStream1Duration(n) ==
    /\ n.k = "act" /\ n.action = "crossfade" /\ n.form = "list" /\ Len(n.ins) = 2
    /\ (HasParam(n, "stream1_duration") => GetParam(n, "stream1_duration") = None)

C13_Render(r) ==
    (r.pc # "idle" /\ OmitsStream1Duration(r.node)) =>
        /\ r.pc # "run"
        /\ (r.pc = "done" /\ r.exc \notin EnvFaults /\ r.normfail = 0) =>
              /\ r.exc.cls = "ValueError"
              /\ r.scans = 0 /\ r.prepares = 0
              /\ r.handed = <<>> /\ r.opened = <<>> /\ r.created = {}
              /\ disk = InitialDisk

C13_CrossfadeFailsFirst == C13_Render(rs[1])

\* The same for the entry point add_crossfade_action of the handler and of
\* the tool.
EffectiveArg(c, name) ==
    IF name \in DOMAIN c.args.a THEN c.args.a[name]
    ELSE ToolDefaults(c.args.kind)[name]

C13_AddCrossfadeFailsFirst ==
    (call.fn \in {"handler", "tool"} /\ call.args.kind = "crossfade"
     /\ Len(call.args.input) = 2
     /\ EffectiveArg(call, "stream1_duration") = None) =>
        /\ call.exc.cls = "ValueError"
        /\ call.node = BadNode
        /\ call.touched = <<>>

----------------------------------------------------------------------------
(* C14: building a trim with start < 0, for any duration and any input,    *)
(* fails with a ValueError whose message says the start must be            *)
(* non-negative, before any file access: before the input reference is     *)
(* tested for existence, decoded or resolved.                              *)

StartMessage == "Start time must be >= 0 and duration must be > 0"

C14_NegativeStartFailsFirst ==
    (call.fn \in {"builder", "handler", "tool"} /\ call.args.kind = "trim"
     /\ call.args.a["start"].n < 0) =>
        /\ call.exc = Exc("ValueError", StartMessage)
        /\ call.node = BadNode
        /\ call.touched = <<>>

\* The part of it the code has: the builder called directly.
C14_BuilderRejectsNegativeStart ==
    (call.fn = "builder" /\ call.args.kind = "trim" /\ call.args.a["start"].n < 0) =>
        /\ call.exc = Exc("ValueError", StartMessage)
        /\ call.node = BadNode
        /\ call.touched = <<>>

----------------------------------------------------------------------------
(* C15: every node a WorkflowBuilder method returns satisfies the          *)
(* parameter domain of its kind, and every call outside the domain raises  *)
(* ValueError and returns no node: trim start >= 0 and duration > 0; cut   *)
(* x, y, width, height > 0; change_volume volume >= 0; speed factor > 0;   *)
(* blur radius > 0; fade type in {in, out} and duration > 0; concat and    *)
(* audio_mix at least 2 inputs; overlay and crossfade exactly 2 inputs;    *)
(* crossfade duration > 0 and stream1_duration > 0.                        *)

DomainKinds ==
    {"trim", "cut", "change_volume", "speed", "blur", "fade", "concat", "audio_mix",
     "overlay", "crossfade"}

Positive(v) == v.t = "int" /\ v.n > 0
NonNegative(v) == v.t = "int" /\ v.n >= 0

\* The domain of kind, on the arguments by name and the number of inputs.
InDomain(kind, a, inputs) ==
    CASE kind = "trim" -> NonNegative(a["start"]) /\ Positive(a["duration"])
      [] kind = "cut" -> \A n \in {"x", "y", "width", "height"} : Positive(a[n])
      [] kind = "change_volume" -> NonNegative(a["volume"])
      [] kind = "speed" -> Positive(a["factor"])
      [] kind = "blur" -> Positive(a["radius"])
      [] kind = "fade" -> a["type"] \in {StrV("in"), StrV("out")} /\ Positive(a["duration"])
      [] kind = "concat" -> inputs >= 2
      [] kind = "audio_mix" -> inputs >= 2
      [] kind = "overlay" -> inputs = 2
      [] kind = "crossfade" ->
            inputs = 2 /\ Positive(a["duration"]) /\ Positive(a["stream1_duration"])

\* The parameters of a node, by name.
ParamsOf(n) == [name \in {pr[1] : pr \in n.params} |-> GetParam(n, name)]

C15_Call(c) ==
    (c.fn = "builder" /\ c.args.kind \in DomainKinds) =>
        IF InDomain(c.args.kind, c.args.a, Len(c.args.input.ins))
        THEN /\ c.exc = NoExc
             /\ c.node.k = "act" /\ c.node.action = c.args.kind
             /\ DOMAIN ParamsOf(c.node) = ArgNames(c.args.kind)
             /\ InDomain(c.node.action, ParamsOf(c.node), Len(c.node.ins))
        ELSE /\ c.exc.cls = "ValueError"
             /\ c.node = BadNode

----------------------------------------------------------------------------
(* C16: add_fade_action rejects every start_time < 0 with ValueError and   *)
(* returns no node, so every fade node the builder produces has            *)
(* start_time >= 0.                                                        *)

C16_FadeStartNonNegative ==
    (call.fn = "builder" /\ call.args.kind = "fade") =>
        /\ call.args.a["start_time"].n < 0 =>
              call.exc.cls = "ValueError" /\ call.node = BadNode
        /\ call.exc = NoExc => NonNegative(GetParam(call.node, "start_time"))

----------------------------------------------------------------------------
(* C17: the tool add_cut_action called with positive width and height and  *)
(* with x and y left at their documented defaults (0, 0) returns a         *)
(* result_stream carrying a cut node with x = 0 and y = 0, not an error.   *)

Decodable(ws, dsk) == \A j \in 1..Len(ws) : process_input_stream(ws[j], dsk).exc = NoExc

C17_CutDefaultsAccepted ==
    (call.fn = "tool" /\ call.args.kind = "cut"
     /\ DOMAIN call.args.a = {"width", "height"}
     /\ Positive(call.args.a["width"]) /\ Positive(call.args.a["height"])
     /\ Decodable(call.args.input, InitialDisk)) =>
        /\ call.exc = NoExc
        /\ call.response.keys = {"result_stream"}
        /\ call.response.result_stream.node.action = "cut"
        /\ GetParam(call.response.result_stream.node, "x") = IntV(0)
        /\ GetParam(call.response.result_stream.node, "y") = IntV(0)

----------------------------------------------------------------------------
(* C18: normalize_input applies exactly six steps to a leaf's stream pair, *)
(* each once and in this order: pixel-format canonicalization, video       *)
(* timestamp reset, fixed frame-rate retiming, audio resample to a fixed   *)
(* rate, audio timestamp reset, loudness normalization; a failure in any   *)
(* step makes the whole normalization fail.                                *)

Filters(ops) == [j \in 1..Len(ops) |-> FilterOf(ops[j])]

SixSteps ==
    <<[chan |-> "video", filter |-> "format"],
      [chan |-> "video", filter |-> "setpts"],
      [chan |-> "video", filter |-> "fps"],
      [chan |-> "audio", filter |-> "aresample"],
      [chan |-> "audio", filter |-> "asetpts"],
      [chan |-> "audio", filter |-> "dynaudnorm"]>>

C18_Render(r) ==
    /\ \A j \in 1..Len(r.leaves) :
          /\ Filters(r.leaves[j].ops) = SixSteps
          /\ r.leaves[j].srcs = <<r.opened[j]>>
          /\ r.leaves[j].shape = "pair"
    /\ r.normfail = 0 => Len(r.leaves) = Len(r.opened)
    /\ r.normfail > 0 =>
          /\ r.pc = "done"
          /\ r.exc = Exc("Exception", "Error normalizing input")
          /\ Len(r.leaves) = Len(r.opened) - 1
          /\ Len(r.stack) <= Len(r.leaves)
          /\ r.runs = 0

C18_SixStepsInOrder == C18_Render(rs[1])

\* The second leaf of a concat failed in a step of its normalization.
C18_SecondLeafFailed ==
    /\ rs[1].normfail = 4
    /\ Len(rs[1].leaves) = 1
    /\ Filters(rs[1].leaves[1].ops) = SixSteps
    /\ rs[1].pc = "done"

----------------------------------------------------------------------------
(* C19: in the normalizer's step sequence, on each channel the timestamp   *)
(* reset comes after every timebase-affecting step of that channel: the    *)
(* video timestamp reset after the frame-rate retiming, the audio          *)
(* timestamp reset after the audio resample.                               *)

Position(fs, f) == CHOOSE j \in 1..Len(fs) : fs[j] = f

ResetsFollow(fs) ==
    /\ Position(fs, [chan |-> "video", filter |-> "setpts"])
          > Position(fs, [chan |-> "video", filter |-> "fps"])
    /\ Position(fs, [chan |-> "audio", filter |-> "asetpts"])
          > Position(fs, [chan |-> "audio", filter |-> "aresample"])

C19_ResetsAfterTimebaseSteps ==
    \A j \in 1..Len(rs[1].leaves) : ResetsFollow(Filters(rs[1].leaves[j].ops))

\* The part of it the code has: the audio channel.
C19_AudioResetAfterResample ==
    \A j \in 1..Len(rs[1].leaves) :
        LET fs == Filters(rs[1].leaves[j].ops)
        IN  Position(fs, [chan |-> "audio", filter |-> "asetpts"])
              > Position(fs, [chan |-> "audio", filter |-> "aresample"])

----------------------------------------------------------------------------
(* C20: two render_workflow calls on the same tree, every leaf a local     *)
(* path, hand the engine compositions that are equal once the names of the *)
(* temporary copies and of the output file are abstracted: the same        *)
(* handlers are applied in the same order to the same leaf occurrences,    *)
(* and the same occurrences get the original versus a copy.                *)

\* A path without its name: what it is, and of which file.
Unnamed(p) == [kind |-> p.kind, base |-> p.base]

Abstracted(st) ==
    [shape |-> st.shape, audio |-> st.audio, ops |-> st.ops,
     srcs |-> [j \in 1..Len(st.srcs) |-> Unnamed(st.srcs[j])]]

HandedKinds(handed) ==
    [j \in 1..Len(handed) |->
        [orig |-> handed[j].orig, original |-> handed[j].unique = handed[j].orig]]

\* This render is on the tree of the last one that reached the engine.
SameTreeAgain(r) ==
    /\ r.pc # "idle"
    /\ r.prev.comp # NoneStream
    /\ r.prev.node = r.node
    /\ AllLeavesLocal(r.node)

C20_Render(r) ==
    SameTreeAgain(r) =>
        /\ r.comp # NoneStream =>
              /\ Abstracted(r.comp) = Abstracted(r.prev.comp)
              /\ HandedKinds(r.handed) = HandedKinds(r.prev.handed)
              /\ r.dispatched = r.prev.dispatched
        /\ (r.pc = "done" /\ r.comp = NoneStream) =>
              r.exc \in EnvFaults \/ r.normfail > 0

C20_SameTreeSameComposition == C20_Render(rs[1])

\* The second render of concat(A, trim(A), A) is about to run.
C20_SecondRenderOfTriple ==
    /\ rs[1].renders = 2
    /\ rs[1].pc = "run"
    /\ SameTreeAgain(rs[1])
    /\ rs[1].node = ActN("concat", <<UrlLeaf("A"), Act1("trim", UrlLeaf("A")), UrlLeaf("A")>>)
    /\ rs[1].comp.srcs # rs[1].prev.comp.srcs

----------------------------------------------------------------------------
(* C4: on every exit of render_workflow (success, failure during the       *)
(* evaluation, failure of the engine run) every temporary copy this        *)
(* render's copy preparation created has been deleted.                     *)

C4_CopiesDeletedOnExit ==
    rs[1].pc = "done" => rs[1].created \cap disk = {}

----------------------------------------------------------------------------
(* C5: when two renders on the one FFmpeg instance interleave at any step, *)
(* each still hands pairwise distinct paths to its own leaf occurrences,   *)
(* its first occurrence of a path getting the original, and neither fails  *)
(* with 'No more copies available'.                                        *)

FirstGetsOriginal(r) ==
    \A j \in 1..Len(r.handed) :
        (\A l \in 1..(j - 1) : r.handed[l].orig # r.handed[j].orig)
            => r.handed[j].unique = r.handed[j].orig

C5_Render(r) ==
    AllLeavesLocal(r.node) =>
        /\ Distinct(r.opened)
        /\ FirstGetsOriginal(r)
        /\ r.exc # Exc("RuntimeError", "No more copies available")

C5_InterleavedRendersIsolated == \A t \in Threads : C5_Render(rs[t])

----------------------------------------------------------------------------
(* C6: for two renders one after the other on the same instance, the alias *)
(* table and cursors the second consults hold only entries of the second   *)
(* tree's scan, and every leaf occurrence of the second gets the path it   *)
(* would get on a new instance (up to the names of the copies), whether    *)
(* the first succeeded or failed at any point.                             *)

Anon(p) == [p EXCEPT !.uuid = 0]

\* The paths a new instance hands to these occurrences, in order.
RECURSIVE HandOut(_, _, _, _)
HandOut(origs, j, copies, index) ==
    IF j > Len(origs) THEN <<>>
    ELSE LET u == get_unique_file_path(origs[j], copies, index)
         IN  <<u.path>> \o HandOut(origs, j + 1, copies, u.index)

OnNewInstance(r) ==
    LET c == create_file_copies(r.file_usage, 0)
    IN  HandOut([j \in 1..Len(r.handed) |-> r.handed[j].orig], 1, c.copies, c.index)

MultiUse(u) == {p \in UsagePaths(u) : UsageCount(u, p) > 1}

C6_Render(r) ==
    r.prepares = 1 =>
        /\ DOMAIN file_copies = MultiUse(r.file_usage)
        /\ DOMAIN copy_usage_index = MultiUse(r.file_usage)
        /\ \A p \in DOMAIN file_copies :
              /\ Len(file_copies[p]) = UsageCount(r.file_usage, p) - 1
              /\ SeqRange(file_copies[p]) \subseteq r.created
              /\ copy_usage_index[p] =
                    Cardinality({j \in 1..Len(r.handed) : r.handed[j].orig = p})
        /\ \A j \in 1..Len(r.handed) :
              Anon(r.handed[j].unique) = Anon(OnNewInstance(r)[j])

C6_SecondRenderStartsClean == C6_Render(rs[1])

\* A later render, past its second leaf, while copies of an earlier render
\* of the same path are still around.
C6_SecondRenderAfterFirst ==
    /\ rs[1].renders >= 2
    /\ rs[1].pc = "eval"
    /\ Len(rs[1].handed) = 2
    /\ rs[1].handed[2].unique.kind = "copy"
    /\ \E c \in disk : c.kind = "copy" /\ c \notin rs[1].created
                       /\ c.base = rs[1].handed[2].orig.base

----------------------------------------------------------------------------
(* C8: for every exception raised during a render, of every type and with  *)
(* every message text, MediaMCPHandler.render_workflow returns a failure   *)
(* value instead of raising, and the response send_response builds from it *)
(* has the key 'error' and neither 'result' nor a 'result_path'.           *)

C8_FailureTaggedError ==
    (rs[1].pc = "done" /\ rs[1].exc # NoExc) =>
        /\ ~ rs[1].raised
        /\ "error" \in rs[1].result.keys
        /\ rs[1].response.keys = {"error"}
        /\ "result_path" \notin rs[1].response.result.keys

----------------------------------------------------------------------------
(* C9: when the engine run fails with diagnostic text d, the failure the   *)
(* render reports (the exception out of FFmpeg.render_workflow and the     *)
(* 'error' string MediaMCPHandler.render_workflow returns) carries d.      *)

\* Texts are atomic here: a text carries d when it is d.
Carries(text, d) == text = d

C9_DiagnosticVerbatim ==
    (rs[1].pc = "done" /\ rs[1].diag # "") =>
        /\ Carries(rs[1].exc.msg, rs[1].diag) \/ Carries(rs[1].exc.stderr, rs[1].diag)
        /\ Carries(rs[1].result.error, rs[1].diag)

----------------------------------------------------------------------------
(* C21: every single-input handler (trim, cut, change_volume, scale, fade, *)
(* rotate, speed, blur, set_fps, set_format, reset_video_pts,              *)
(* audio_resample, reset_audio_pts, audio_dynaudnorm) preserves the shape  *)
(* of the stream it is given: a pair gives a pair whose audio handle is    *)
(* absent exactly when the input's was, a bare handle gives a bare handle. *)

\* A registry handler of one input was called with all its parameters.
SingleCall(c) ==
    /\ c.fn = "registry"
    /\ c.args.action \in SingleActions
    /\ c.args.params = FullParams(c.args.action)

C21_SingleKeepsShape ==
    (SingleCall(call) /\ call.args.streams[1].shape \in {"pair", "bare"}) =>
        /\ call.exc = NoExc
        /\ call.val.shape = call.args.streams[1].shape
        /\ call.val.shape = "pair" => (call.val.a = <<>>) = (call.args.streams[1].a = <<>>)
        /\ call.val.shape = "pair" => call.val.audio = call.args.streams[1].audio

\* The part that holds: on a pair every handler keeps the shape, and on a
\* bare handle every handler does unless it is a handler of the audio given
\* a handle that carries a selector.
C21_KeepsShapeButSelected ==
    (SingleCall(call) /\ call.args.streams[1].shape \in {"pair", "bare"}) =>
        IF /\ call.args.streams[1].shape = "bare"
           /\ Selected(call.args.streams[1].v)
           /\ FilterOf(call.args.action).chan = "audio"
        THEN call.exc = Exc("ValueError", "Stream already has a selector")
        ELSE /\ call.exc = NoExc
             /\ call.val.shape = call.args.streams[1].shape
             /\ call.val.shape = "pair" =>
                   (call.val.a = <<>>) = (call.args.streams[1].a = <<>>)

----------------------------------------------------------------------------
(* C22: on a pair, the video-only handlers (cut, scale, rotate, blur,      *)
(* set_fps, set_format, reset_video_pts) return the audio handle they were *)
(* given, unchanged, and the audio-only handlers (change_volume,           *)
(* audio_resample, reset_audio_pts, audio_dynaudnorm) return the video     *)
(* handle they were given, unchanged.                                      *)

VideoOnly == {"cut", "scale", "rotate", "blur", "set_fps", "set_format", "reset_video_pts"}
AudioOnly == {"change_volume", "audio_resample", "reset_audio_pts", "audio_dynaudnorm"}

C22_OtherChannelUntouched ==
    (SingleCall(call) /\ call.args.streams[1].shape = "pair") =>
        /\ call.exc = NoExc
        /\ call.args.action \in VideoOnly =>
              /\ call.val.a = call.args.streams[1].a
              /\ call.val.v # call.args.streams[1].v
        /\ call.args.action \in AudioOnly =>
              /\ call.val.v = call.args.streams[1].v
              /\ call.args.streams[1].audio => call.val.a # call.args.streams[1].a

\* cut was called on a pair with both handles and returned.
C22_CutOnPair ==
    /\ SingleCall(call)
    /\ call.args.action = "cut"
    /\ call.args.streams[1].shape = "pair"
    /\ call.args.streams[1].audio
    /\ call.exc = NoExc
    /\ call.val.a = Select(Input(SrcPath("A")), "a")

----------------------------------------------------------------------------
(* C23: audio_mix on a list of stream pairs fails with ValueError exactly  *)
(* when fewer than two of its elements have an audio handle; otherwise it  *)
(* returns a pair whose video is the first element's video, unchanged, and *)
(* whose audio mixes all and only the audio handles present, in the order  *)
(* of the list.                                                            *)

AllPairs(streams_list) ==
    \A j \in 1..Len(streams_list) : streams_list[j].shape = "pair"

\* The positions whose element has an audio handle, in order.
RECURSIVE WithAudio(_, _)
WithAudio(streams_list, j) ==
    IF j > Len(streams_list) THEN <<>>
    ELSE (IF streams_list[j].a # <<>> THEN <<j>> ELSE <<>>) \o WithAudio(streams_list, j + 1)

\* The postfix graph h ends in a node named name whose incoming handles
\* are exactly ins, in order.
RECURSIVE Joined(_, _)
Joined(ins, j) == IF j > Len(ins) THEN <<>> ELSE ins[j] \o Joined(ins, j + 1)

EndsIn(h, name, ins) ==
    /\ h # <<>>
    /\ h[Len(h)].op = name
    /\ h[Len(h)].n = Len(ins)
    /\ SubSeq(h, 1, Len(h) - 1) = Joined(ins, 1)

C23_AudioMix ==
    (call.fn = "registry" /\ call.args.action = "audio_mix"
        /\ AllPairs(call.args.streams)) =>
        LET l == call.args.streams
            w == WithAudio(l, 1)
        IN  IF Len(w) < 2
            THEN call.exc.cls = "ValueError"
            ELSE /\ call.exc = NoExc
                 /\ call.val.shape = "pair"
                 /\ call.val.v = l[1].v
                 /\ EndsIn(call.val.a, "amix", [j \in 1..Len(w) |-> l[w[j]].a])

\* Three pairs were mixed, the middle one without audio.
C23_MixedAroundSilent ==
    /\ call.fn = "registry" /\ call.args.action = "audio_mix"
    /\ AllPairs(call.args.streams)
    /\ Len(call.args.streams) = 3
    /\ WithAudio(call.args.streams, 1) = <<1, 3>>
    /\ call.exc = NoExc

----------------------------------------------------------------------------
(* C28: every registry handler, on every input, either returns a stream    *)
(* value (a pair or a bare handle) or raises; none returns no value.  In   *)
(* particular concat on a list with a bare handle among its elements does  *)
(* not return None.                                                        *)

C28_ReturnsStreamOrRaises ==
    call.fn = "registry" =>
        (call.exc = NoExc => call.val.shape \in {"pair", "bare"})

\* The part that holds: no handler but concat returns None.
C28_NoneOnlyFromConcat ==
    (call.fn = "registry" /\ call.args.action # "concat") =>
        (call.exc = NoExc => call.val.shape \in {"pair", "bare"})

\* The part on renders that holds: the stream handed to the engine's output
\* call is never None.
C28_OutputNeverNone ==
    \A t \in Threads : rs[t].comp # NoneStream => rs[t].comp.shape \in {"pair", "bare"}

----------------------------------------------------------------------------
(* C24: every WorkflowBuilder operation returns a node of the wire shape   *)
(* {action, input, flat params}: a raw string input becomes the leaf       *)
(* {url: string}, a node built before is kept unchanged, a list keeps its  *)
(* length and order with each string wrapped and each node kept; so a tree *)
(* built through the builder alone from reference strings has no bare      *)
(* string leaf.                                                            *)

RECURSIVE NoBareString(_)
NoBareString(n) ==
    /\ n.k # "str"
    /\ \A j \in 1..Len(n.ins) : NoBareString(n.ins[j])

Scalar(v) == v.t \in {"int", "str", "none"}

C24_BuilderWireShape ==
    (call.fn = "builder" /\ call.exc = NoExc) =>
        LET i == call.args.input
            n == call.node
        IN  /\ n.k = "act"
            /\ n.action = call.args.kind
            /\ \A pr \in n.params : pr[1] \in ArgNames(call.args.kind) /\ Scalar(pr[2])
            /\ n.form = i.form
            /\ Len(n.ins) = Len(i.ins)
            /\ \A j \in 1..Len(i.ins) :
                  IF i.ins[j].k = "str"
                  THEN n.ins[j] = UrlLeaf(i.ins[j].ref)
                  ELSE n.ins[j] = i.ins[j]
            /\ (\A j \in 1..Len(i.ins) : i.ins[j].k # "str" => NoBareString(i.ins[j]))
                  => NoBareString(n)

\* A list of a reference string and a node built by an earlier call was
\* given to a builder operation, which returned.
C24_BuiltOnBuilt ==
    /\ call.fn = "builder" /\ call.exc = NoExc
    /\ call.args.input.form = "list"
    /\ Len(call.args.input.ins) = 2
    /\ call.args.input.ins[1] = StrLeaf("A")
    /\ call.args.input.ins[2].k = "act"
    /\ Depth(call.node) = 2
    /\ call.node.ins[1] = UrlLeaf("A")

----------------------------------------------------------------------------
(* C25: when probing the file fails, get_media_info surfaces a failure:    *)
(* the server's response is tagged "error" and is not a "result" carrying  *)
(* metadata.                                                               *)

\* ffmpeg.probe was called and raised.
ProbeFailed(c) ==
    c.fn = "get_media_info" /\ c.args.probed /\ ~ c.args.probe_ok

C25_ProbeFailureTaggedError ==
    ProbeFailed(call) =>
        /\ call.response.keys = {"error"}
        /\ call.response.error # ""

\* The part that holds: the response to a failed probe carries no metadata,
\* only the engine's message and a return code of 1, under "result".
C25_ProbeFailureUnderResult ==
    ProbeFailed(call) =>
        /\ call.exc = NoExc
        /\ call.response.keys = {"result"}
        /\ call.response.result.stdout = ""
        /\ call.response.result.stderr # ""
        /\ call.response.result.returncode = 1

----------------------------------------------------------------------------
(* C26: in one render, the canonical path resolved for a leaf occurrence   *)
(* during the evaluation is the path counted for it during the scan, for   *)
(* local and remote references alike: every path passed to the alias       *)
(* request is a key of the scanned usage map, and the source of each       *)
(* occurrence is fetched at most once per render.                          *)

\* The files the downloads of this run have written.
Downloads == {p \in disk : p.kind = "dl"}

\* The occurrences of remote references among the leaves of a tree.
RemoteOccurrences(n) ==
    Cardinality({j \in 1..Len(LeafRefs(n)) :
                    LeafRefs(n)[j] \in RemoteRefs \cup DeadRemoteRefs})

C26_Render(r) ==
    /\ \A j \in 1..Len(r.handed) : r.handed[j].orig \in UsagePaths(r.file_usage)
    /\ r.pc # "idle" => Cardinality(Downloads) <= RemoteOccurrences(r.node)

C26_EvaluatedPathWasScanned == C26_Render(rs[1])

\* The part that holds: a tree of local references only.
C26_LocalPathsWereScanned ==
    (rs[1].pc # "idle" /\ AllLeavesLocal(rs[1].node)) => C26_Render(rs[1])

----------------------------------------------------------------------------
(* C27: during a single-threaded render of any tree with local-path        *)
(* leaves, at every step and for every path p in the copy table,           *)
(* 0 <= cursor[p] <= usage[p] and the alias requests made for p so far are *)
(* at most usage[p]; "No more copies available" is unreachable.            *)

\* The alias requests answered for p so far.
Requests(handed, p) == Cardinality({j \in 1..Len(handed) : handed[j].orig = p})

C27_Render(r) ==
    /\ \A p \in DOMAIN file_copies :
          /\ 0 <= copy_usage_index[p]
          /\ copy_usage_index[p] <= UsageCount(r.file_usage, p)
          /\ Requests(r.handed, p) <= UsageCount(r.file_usage, p)
          /\ Requests(r.handed, p) = copy_usage_index[p]
    /\ r.exc.cls # "RuntimeError"

----------------------------------------------------------------------------
(* C29: if some leaf reference of the tree cannot be resolved (it is       *)
(* neither a URL that downloads nor an existing local file),               *)
(* render_workflow fails with the resolver's error during the scan: no     *)
(* physical copy has been created, the copy table of the instance is       *)
(* unchanged, no node has been evaluated and the engine has not been       *)
(* invoked.                                                                *)

HasUnresolvable(n) ==
    \E j \in 1..Len(LeafRefs(n)) : LeafRefs(n)[j] \in MissingRefs \cup DeadRemoteRefs

\* What the resolver raises.
ResolutionErrors ==
    {Exc("ValueError", "Invalid URL or file path"), Exc("OSError", "download failed")}

\* render_workflow is running, or has ended, on a tree with such a leaf.
C29_Render(r) == r.pc # "idle" /\ HasUnresolvable(r.node)

C29_FailsInScan(r) ==
    C29_Render(r) =>
        /\ r.pc \in {"scan", "done"}
        /\ r.prepares = 0
        /\ r.created = {}
        /\ r.handed = <<>>
        /\ r.dispatched = <<>>
        /\ r.runs = 0
        /\ r.pc = "done" =>
              \/ r.exc \in EnvFaults
              \/ r.scans = 1 /\ r.exc \in ResolutionErrors

\* No step of such a render, up to its return, touches the copy tables or
\* writes a copy.
C29_TablesKept(r) ==
    (C29_Render(r) /\ r.pc # "done") =>
        /\ UNCHANGED <<file_copies, copy_usage_index>>
        /\ {p \in disk' : p.kind = "copy"} = {p \in disk : p.kind = "copy"}

C29_UnresolvedFailsInScan == [] C29_FailsInScan(rs[1]) /\ [][C29_TablesKept(rs[1])]_vars

\* The second render on an instance whose tables are not empty has failed in
\* its scan on a reference that resolves to nothing.
C29_FailedOverKeptTables ==
    /\ rs[1].renders = 2
    /\ C29_Render(rs[1])
    /\ rs[1].pc = "done"
    /\ rs[1].exc \in ResolutionErrors
    /\ DOMAIN file_copies # {}

----------------------------------------------------------------------------
(* C30: for every crossfade node that add_crossfade_action accepts, the    *)
(* offset the handler computes, stream1_duration - duration, is >= 0: the  *)
(* builder rejects a crossfade whose duration exceeds stream1_duration.    *)

\* add_crossfade_action returned a node.
CrossfadeBuilt(c) ==
    c.fn = "builder" /\ c.args.kind = "crossfade" /\ c.exc = NoExc

C30_OffsetNonNegative ==
    CrossfadeBuilt(call) => crossfade_offset(call.node) >= 0

\* The part that holds: both durations of an accepted crossfade are positive,
\* and the offset is their difference.
C30_AcceptedDurationsPositive ==
    CrossfadeBuilt(call) =>
        /\ call.args.a["duration"].n > 0
        /\ call.args.a["stream1_duration"].n > 0
        /\ crossfade_offset(call.node)
              = call.args.a["stream1_duration"].n - call.args.a["duration"].n

====
